---- MODULE Spec2Model ----
(***************************************************************************)
(* Model of the resume-intake backend (nchouhan/ogni-scan):                *)
(*   - the processing pass process_resume (backend/api/resumes.py) run     *)
(*     inside upload_resume, over a committed database and one SQLAlchemy  *)
(*     session per request;                                                *)
(*   - the chunker OpenAIService.chunk_text;                               *)
(*   - the field extractors of SimpleResumeParser.                         *)
(*                                                                         *)
(* A Python str is a sequence of elements [ch, n]: a single character      *)
(* (n = 1, ch the character) or a run of n ordinary letters (ch = "x").    *)
(* len(), split(), strip() and re.split() below work on that encoding      *)
(* exactly as the Python operations work on the string it stands for; a    *)
(* run holds letters only, so no operation ever cuts through a run: the    *)
(* patterns of the field extractors have no literal x in them and test     *)
(* letters only by class, and their keywords never hold two x in a row.    *)
(***************************************************************************)
EXTENDS Integers, Sequences, FiniteSets, TLC

VARIABLES
    resumes,      \* committed rows of table resumes: id -> row, or NoRow
    chunk_rows,   \* committed rows of table resume_chunks, in insert order
    temp_files,   \* temporary files that exist on disk (owner request ids)
    pc,           \* position of each request in upload_resume/process_resume
    req,          \* locals of each request
    session,      \* uncommitted state of each request's db session
    storage,      \* names of the objects held by the object store
    settings,     \* the configuration in force
    loop,         \* the request the event loop is running, 0 when idle
    fin,          \* argument of the function or call under study
    fout,         \* its result, or its locals while it runs
    fstage        \* its position: "in" before a function is applied, "out" after

vars == <<resumes, chunk_rows, temp_files, pc, req, session, storage, settings, loop,
         fin, fout, fstage>>

server_vars == <<resumes, chunk_rows, temp_files, pc, req, session, storage, settings, loop>>

----------------------------------------------------------------------------
(* Strings *)

Ch(c) == [ch |-> c, n |-> 1]
Letters(k) == [ch |-> "x", n |-> k]

Str(chars) == [i \in 1..Len(chars) |-> Ch(chars[i])]

\* None
NULL == <<>>

NL == Ch("\n")
SP == Ch(" ")
DOT == Ch(".")
EN_DASH == Ch("en dash")      \* the character U+2013

IsSpace(e) == e.ch \in {" ", "\n"}
IsTerminator(e) == e.ch \in {".", "!", "?"}
IsDigit(e) == e.ch \in {"0", "1", "2", "3", "4", "5", "6", "7", "8", "9"}

UpperCase == "ABCDEFGHIJKLMNOPQRSTUVWXYZ"
LowerCase == "abcdefghijklmnopqrstuvwxyz"

UpperSet == {SubSeq(UpperCase, k, k) : k \in 1..26}
LowerSet == {SubSeq(LowerCase, k, k) : k \in 1..26}

LowerOf ==
    [c \in UpperSet |->
        LET k == CHOOSE j \in 1..26 : SubSeq(UpperCase, j, j) = c
        IN  SubSeq(LowerCase, k, k)]

UpperOf ==
    [c \in LowerSet |->
        LET k == CHOOSE j \in 1..26 : SubSeq(LowerCase, j, j) = c
        IN  SubSeq(UpperCase, k, k)]

IsUpper(c) == c \in UpperSet
IsLower(c) == c \in LowerSet

LowerCh(c) == IF c \in UpperSet THEN LowerOf[c] ELSE c
UpperCh(c) == IF c \in LowerSet THEN UpperOf[c] ELSE c

RECURSIVE StrLen(_)
StrLen(s) == IF s = <<>> THEN 0 ELSE Head(s).n + StrLen(Tail(s))

\* str.strip(): drop leading and trailing whitespace
RECURSIVE lstrip(_)
lstrip(s) == IF s # <<>> /\ IsSpace(Head(s)) THEN lstrip(Tail(s)) ELSE s

RECURSIVE rstrip(_)
rstrip(s) ==
    IF s # <<>> /\ IsSpace(s[Len(s)]) THEN rstrip(SubSeq(s, 1, Len(s) - 1)) ELSE s

strip(s) == rstrip(lstrip(s))

RECURSIVE Concat(_)
Concat(ss) == IF ss = <<>> THEN <<>> ELSE Head(ss) \o Concat(Tail(ss))

\* the string a literal stands for
S(lit) == [i \in 1..Len(lit) |-> Ch(SubSeq(lit, i, i))]

\* a string with every run and word written out character by character
RECURSIVE Expand(_)
Expand(s) ==
    IF Len(s) > 1
    THEN Expand(SubSeq(s, 1, Len(s) \div 2))
             \o Expand(SubSeq(s, Len(s) \div 2 + 1, Len(s)))
    ELSE IF s = <<>> THEN <<>>
    ELSE IF s[1].n = 1 THEN s
    ELSE IF Len(s[1].ch) = s[1].n THEN S(s[1].ch)
    ELSE [i \in 1..s[1].n |-> Ch(s[1].ch)]

\* a string with its runs of more than two letters cut to two, written out:
\* no keyword holds two x in a row, so a keyword occurs in a text exactly
\* where it occurs in the text cut that way
Short(s) ==
    Expand([i \in 1..Len(s) |-> IF s[i].ch = "x" /\ s[i].n > 2 THEN Letters(2) ELSE s[i]])

\* `sub in s`
InStr(sub, s) ==
    \E i \in 0..(Len(s) - Len(sub)) : \A j \in 1..Len(sub) : s[i + j] = sub[j]

Strs(lits) == [k \in 1..Len(lits) |-> S(lits[k])]

\* any(word in text_lower for word in [...])
AnyWordIn(words, text_lower) ==
    \E k \in 1..Len(words) : InStr(words[k], text_lower)

\* text.split('\n\n'): cut at each non-overlapping "\n\n", left to right
RECURSIVE split_paragraphs(_)
split_paragraphs(s) ==
    LET hits == {i \in 1..(Len(s) - 1) : s[i] = NL /\ s[i + 1] = NL}
    IN  IF hits = {} THEN <<s>>
        ELSE LET i == CHOOSE k \in hits : \A m \in hits : k <= m
             IN  <<SubSeq(s, 1, i - 1)>> \o split_paragraphs(SubSeq(s, i + 2, Len(s)))

\* re.split(r'[.!?]+', chunk): cut at each maximal run of terminators,
\* which is dropped
RECURSIVE re_split_sentences(_)
re_split_sentences(s) ==
    LET hits == {i \in 1..Len(s) : IsTerminator(s[i])}
    IN  IF hits = {} THEN <<s>>
        ELSE LET i == CHOOSE k \in hits : \A m \in hits : k <= m
                 after == {j \in i..Len(s) : \A m \in i..j : IsTerminator(s[m])}
                 j == CHOOSE k \in after : \A m \in after : m <= k
             IN  <<SubSeq(s, 1, i - 1)>> \o re_split_sentences(SubSeq(s, j + 1, Len(s)))

----------------------------------------------------------------------------
(* OpenAIService.chunk_text *)

chunk_size == 800

\* the greedy accumulation loop shared by the two passes: st = [out, cur]
RECURSIVE Accumulate(_, _, _)
Accumulate(pieces, sep, st) ==
    IF pieces = <<>> THEN st
    ELSE LET p == Head(pieces)
             nxt == IF StrLen(st.cur) + StrLen(p) <= chunk_size
                    THEN [out |-> st.out, cur |-> st.cur \o p \o sep]
                    ELSE [out |-> IF st.cur # <<>> THEN Append(st.out, strip(st.cur))
                                  ELSE st.out,
                          cur |-> p \o sep]
         IN  Accumulate(Tail(pieces), sep, nxt)

Flush(st) == IF st.cur # <<>> THEN Append(st.out, strip(st.cur)) ELSE st.out

\* lines 241-256: the paragraph pass
paragraph_chunks(text) ==
    Flush(Accumulate(split_paragraphs(text), <<NL, NL>>, [out |-> <<>>, cur |-> <<>>]))

\* lines 266-277: one oversized chunk cut into sentence chunks
sentence_chunks(chunk) ==
    Flush(Accumulate(re_split_sentences(chunk), <<DOT, SP>>, [out |-> <<>>, cur |-> <<>>]))

RECURSIVE final_chunks(_)
final_chunks(chunks) ==
    IF chunks = <<>> THEN <<>>
    ELSE (IF StrLen(Head(chunks)) <= chunk_size THEN <<Head(chunks)>>
          ELSE sentence_chunks(Head(chunks)))
         \o final_chunks(Tail(chunks))

chunk_text(text) == final_chunks(paragraph_chunks(text))

----------------------------------------------------------------------------
(* SimpleResumeParser._extract_phone *)

InClass(e, cls) ==
    CASE cls = "plus"    -> e.ch = "+"
      [] cls = "one"     -> e.ch = "1"
      [] cls = "nine"    -> e.ch = "9"
      [] cls = "sep"     -> e.ch \in {"-", ".", " ", "\n"}
      [] cls = "lparen"  -> e.ch = "("
      [] cls = "rparen"  -> e.ch = ")"
      [] cls = "digit"   -> IsDigit(e)
      [] cls = "digit69" -> e.ch \in {"6", "7", "8", "9"}
      [] cls = "space"   -> IsSpace(e)                          \* \s
      [] cls = "dash"    -> e.ch \in {"-", "en dash"}           \* [-\u2013]
      [] cls = "slash"   -> e.ch = "/"
      [] cls = "any"     -> e.ch # "\n"                         \* .
      [] cls = "local"   -> \/ e.ch \in UpperSet \cup LowerSet  \* [A-Za-z0-9._%+-]
                            \/ IsDigit(e)
                            \/ e.ch \in {".", "_", "%", "+", "-"}
      [] cls = "host"    -> \/ e.ch \in UpperSet \cup LowerSet  \* [A-Za-z0-9.-]
                            \/ IsDigit(e)
                            \/ e.ch \in {".", "-"}
      [] cls = "tld"     -> e.ch \in UpperSet \cup LowerSet \cup {"|"}   \* [A-Z|a-z]

Must(cls) == [cls |-> cls, opt |-> FALSE, star |-> FALSE, n |-> 1]
Opt(cls) == [cls |-> cls, opt |-> TRUE, star |-> FALSE, n |-> 1]
Star(cls) == [cls |-> cls, opt |-> TRUE, star |-> TRUE, n |-> 1]

\* item{k}: k characters of the class of item, one after the other
Times(item, k) == <<[item EXCEPT !.n = k]>>

\* a pattern is an optional leading group followed by the rest; marks give
\* the characters of the rest that open a capturing group and the group's
\* length
phone_patterns == <<
    \* (\+?1?[-.\s]?)?\(?([0-9]{3})\)?[-.\s]?([0-9]{3})[-.\s]?([0-9]{4})
    [group |-> <<Opt("plus"), Opt("one"), Opt("sep")>>,
     rest  |-> <<Opt("lparen")>> \o Times(Must("digit"), 3) \o <<Opt("rparen"), Opt("sep")>>
               \o Times(Must("digit"), 3) \o <<Opt("sep")>> \o Times(Must("digit"), 4),
     marks |-> <<[at |-> 2, len |-> 3], [at |-> 7, len |-> 3], [at |-> 11, len |-> 4]>>],
    \* (\+91[-.\s]?)?[6-9]\d{9}
    [group |-> <<Must("plus"), Must("nine"), Must("one"), Opt("sep")>>,
     rest  |-> <<Must("digit69")>> \o Times(Must("digit"), 9),
     marks |-> <<>>],
    \* (\+\d{1,3}[-.\s]?)?\d{10,}
    [group |-> <<Must("plus"), Must("digit"), Opt("digit"), Opt("digit"), Opt("sep")>>,
     rest  |-> Times(Must("digit"), 10) \o <<Star("digit")>>,
     marks |-> <<>>] >>

NoMatch == [ok |-> FALSE, caps |-> <<>>]

\* what the item it has consumed at pos, in front of the rest's caps: one
\* entry for each character of the item, a star's characters in one entry
TakenCaps(it, text, pos, caps) ==
    IF it.star THEN <<<<text[pos]>> \o Head(caps)>> \o Tail(caps)
    ELSE [j \in 1..it.n |-> <<text[pos + j - 1]>>] \o caps

\* the backtracking matcher: items against text from pos on; a greedy item
\* is first taken, then skipped; caps[k] is what the k-th character or
\* optional item of the pattern consumed
RECURSIVE MatchItems(_, _, _)
MatchItems(items, text, pos) ==
    IF items = <<>> THEN [ok |-> TRUE, caps |-> <<>>]
    ELSE LET it == Head(items)
             fits == /\ pos + it.n - 1 <= Len(text)
                     /\ \A j \in 0..(it.n - 1) : InClass(text[pos + j], it.cls)
             taken == IF fits
                      THEN MatchItems(IF it.star THEN items ELSE Tail(items),
                                      text, pos + it.n)
                      ELSE NoMatch
             skipped == IF it.opt THEN MatchItems(Tail(items), text, pos)
                        ELSE NoMatch
         IN  IF taken.ok
             THEN [ok |-> TRUE, caps |-> TakenCaps(it, text, pos, taken.caps)]
             ELSE IF skipped.ok
                  THEN [ok |-> TRUE, caps |-> <<<<>>>> \o skipped.caps]
                  ELSE NoMatch

\* the match of a pattern at pos: the group is tried first, and left out
\* (None) only when the pattern cannot match with it
MatchAt(pat, text, pos) ==
    LET with == MatchItems(pat.group \o pat.rest, text, pos)
        without == MatchItems(pat.rest, text, pos)
        g == Len(pat.group)
    IN  IF with.ok
        THEN [ok |-> TRUE, group1 |-> TRUE,
              g1 |-> Concat(SubSeq(with.caps, 1, g)),
              rest |-> SubSeq(with.caps, g + 1, Len(with.caps))]
        ELSE IF without.ok
             THEN [ok |-> TRUE, group1 |-> FALSE, g1 |-> <<>>, rest |-> without.caps]
             ELSE [ok |-> FALSE, group1 |-> FALSE, g1 |-> <<>>, rest |-> <<>>]

\* re.search(pattern, text): the match at the leftmost position that has one
re_search(pat, text) ==
    LET starts == {p \in 1..(Len(text) + 1) : MatchAt(pat, text, p).ok}
    IN  IF starts = {} THEN [ok |-> FALSE, group1 |-> FALSE, g1 |-> <<>>, rest |-> <<>>]
        ELSE MatchAt(pat, text, CHOOSE p \in starts : \A q \in starts : p <= q)

\* the same with an empty first group taken for one that took no part
JoinGroupsEmptyIsNone(pat, m) ==
    IF ~m.group1 \/ m.g1 = <<>> THEN [kind |-> "raise", val |-> <<>>]
    ELSE [kind |-> "str",
          val |-> m.g1 \o Concat([k \in 1..Len(pat.marks) |->
                      Concat(SubSeq(m.rest, pat.marks[k].at,
                                    pat.marks[k].at + pat.marks[k].len - 1))])]

\* ''.join(match.groups()): a group that took no part is None, and join raises
JoinGroups(pat, m) ==
    IF ~m.group1 THEN [kind |-> "raise", val |-> <<>>]
    ELSE [kind |-> "str",
          val |-> m.g1 \o Concat([k \in 1..Len(pat.marks) |->
                      Concat(SubSeq(m.rest, pat.marks[k].at,
                                    pat.marks[k].at + pat.marks[k].len - 1))])]

RECURSIVE first_phone_match(_, _)
first_phone_match(pats, text) ==
    IF pats = <<>> THEN [kind |-> "none", val |-> <<>>]
    ELSE LET m == re_search(Head(pats), text)
         IN  IF m.ok THEN JoinGroups(Head(pats), m)
             ELSE first_phone_match(Tail(pats), text)

extract_phone(text) == first_phone_match(phone_patterns, text)


----------------------------------------------------------------------------
(* SimpleResumeParser._calculate_years_experience *)

current_year == 2024

Word(w) == [ch |-> w, n |-> Len(w)]

DigitVal(e) ==
    CASE e.ch = "0" -> 0 [] e.ch = "1" -> 1 [] e.ch = "2" -> 2 [] e.ch = "3" -> 3
      [] e.ch = "4" -> 4 [] e.ch = "5" -> 5 [] e.ch = "6" -> 6 [] e.ch = "7" -> 7
      [] e.ch = "8" -> 8 [] e.ch = "9" -> 9

\* re.search(r'\d{4}', s): where the first run of four digits starts, 0 if none
year_match(s) ==
    LET hits == {i \in 1..(Len(s) - 3) : \A k \in 0..3 : IsDigit(s[i + k])}
    IN  IF hits = {} THEN 0 ELSE CHOOSE i \in hits : \A j \in hits : i <= j

\* int(match.group())
year_int(s) ==
    LET i == year_match(s)
    IN  DigitVal(s[i]) * 1000 + DigitVal(s[i + 1]) * 100
        + DigitVal(s[i + 2]) * 10 + DigitVal(s[i + 3])

\* str.lower(): on the words of a period token and on single characters
lower(s) ==
    [i \in 1..Len(s) |->
        CASE s[i].ch = "Present" -> Word("present")
          [] s[i].ch = "Current" -> Word("current")
          [] OTHER -> IF s[i].n = 1 THEN Ch(LowerCh(s[i].ch)) ELSE s[i]]

Max(a, b) == IF a >= b THEN a ELSE b

\* lines 312-325: what one experience entry adds to total_years
entry_years_unclamped(exp) ==
    LET start_year == IF year_match(exp.start_year) # 0 THEN year_int(exp.start_year) ELSE 0
        end_year == IF lower(Expand(exp.end_year)) \in {S("present"), S("current")}
                    THEN current_year
                    ELSE IF year_match(exp.end_year) # 0 THEN year_int(exp.end_year)
                         ELSE current_year
    IN  IF start_year > 0 THEN end_year - start_year ELSE 0

entry_years(exp) ==
    LET start_year == IF year_match(exp.start_year) # 0 THEN year_int(exp.start_year) ELSE 0
        end_year == IF lower(Expand(exp.end_year)) \in {S("present"), S("current")}
                    THEN current_year
                    ELSE IF year_match(exp.end_year) # 0 THEN year_int(exp.end_year)
                         ELSE current_year
    IN  IF start_year > 0 THEN Max(0, end_year - start_year) ELSE 0

RECURSIVE calculate_years_experience(_)
calculate_years_experience(experience) ==
    IF experience = <<>> THEN 0
    ELSE entry_years(Head(experience)) + calculate_years_experience(Tail(experience))


----------------------------------------------------------------------------
(* Text at the level of single characters, for the field extractors *)

\* text.split('\n')
RECURSIVE split_lines(_)
split_lines(s) ==
    LET hits == {i \in 1..Len(s) : s[i] = NL}
    IN  IF hits = {} THEN <<s>>
        ELSE LET i == CHOOSE k \in hits : \A m \in hits : k <= m
             IN  <<SubSeq(s, 1, i - 1)>> \o split_lines(SubSeq(s, i + 1, Len(s)))

\* len(line.split()): the number of maximal runs of non-whitespace
TokenCount(line) ==
    Cardinality({i \in 1..Len(line) :
        ~IsSpace(line[i]) /\ (i = 1 \/ IsSpace(line[i - 1]))})

IsLetter(e) == e.ch \in UpperSet \cup LowerSet

Min(a, b) == IF a <= b THEN a ELSE b

----------------------------------------------------------------------------
(* re.search for the patterns of the experience, e-mail and position
   extractors.  A pattern is a tree, matched the way the backtracking
   matcher of re does, so that the match found is the one re.search returns.
   Positions count the elements of the string; a run of letters is taken
   whole by a repeated class and counts for its length. *)

Cls(c) == [t |-> "cls", cls |-> c]
Lit(lit) == [t |-> "lit", s |-> S(lit), ic |-> FALSE]
LitI(lit) == [t |-> "lit", s |-> S(lit), ic |-> TRUE]       \* under re.IGNORECASE
Seq_(xs) == [t |-> "seq", xs |-> xs]
Alt(xs) == [t |-> "alt", xs |-> xs]
Rep(x, min, max) == [t |-> "rep", x |-> x, min |-> min, max |-> max, lazy |-> FALSE]
RepLazy(x, min, max) == [t |-> "rep", x |-> x, min |-> min, max |-> max, lazy |-> TRUE]
Grp(k, x) == [t |-> "grp", k |-> k, x |-> x]
WordBoundary == [t |-> "wb"]
Unbounded == -1

\* \w
IsWordCh(e) == e.ch \in UpperSet \cup LowerSet \/ IsDigit(e) \/ e.ch = "_"

AtWordBoundary(text, p) ==
    LET before == p > 1 /\ IsWordCh(text[p - 1])
        after == p <= Len(text) /\ IsWordCh(text[p])
    IN  before # after

NoGroups(g) == [k \in 1..g |-> <<>>]

NoMatchFound == [ok |-> FALSE, pos |-> 0, caps |-> <<>>]

\* how many characters one round of the repeat r takes at p: a repeated
\* class takes a run of letters whole
RoundWidth(r, text, p) ==
    IF r.x.t = "cls" /\ p <= Len(text) THEN text[p].n ELSE 1

\* the width in characters of the j elements from p on
RECURSIVE RunWidth(_, _, _)
RunWidth(text, p, j) ==
    IF j = 0 THEN 0 ELSE text[p + j - 1].n + RunWidth(text, p, j - 1)

\* the numbers of elements the repeated class r can take at p: every one
\* of them is in the class and their width is within the bounds of r
ClsRounds(r, text, p) ==
    {j \in 0..(Len(text) + 1 - p) :
        /\ \A i \in 0..(j - 1) : InClass(text[p + i], r.x.cls)
        /\ RunWidth(text, p, j) >= r.min
        /\ r.max = Unbounded \/ RunWidth(text, p, j) <= r.max}

\* the kind of the node todo starts with
Kind(todo) == IF todo = <<>> THEN "end" ELSE Head(todo).t

\* the class n has the character at p
ClsAt(n, text, p) == p <= Len(text) /\ InClass(text[p], n.cls)

\* the literal n stands at p
LitAt(n, text, p) ==
    /\ p + Len(n.s) - 1 <= Len(text)
    /\ \A j \in 1..Len(n.s) :
           /\ text[p + j - 1].n = 1
           /\ (IF n.ic THEN LowerCh(text[p + j - 1].ch)
               ELSE text[p + j - 1].ch) = n.s[j].ch

\* the repeat n is of a class that can take one number of elements only
FixedCls(n, text, p) ==
    n.x.t = "cls" /\ Cardinality(ClsRounds(n, text, p)) = 1

\* The backtracking matcher.  todo is what is left to match, first node
\* first; the result is the first way, in the order the matcher tries
\* them, in which all of it matches from p on.  A group leaves a "close"
\* frame that records its span, a repeat a "loop" frame that counts its
\* rounds.  A greedy repeat tries one more round before stopping, a lazy
\* one stops first; an unbounded repeat gives up a round that has consumed
\* nothing.  The rounds of a repeated class are tried in the same order,
\* most first when greedy and fewest first when lazy.
RECURSIVE M(_, _, _, _), MAlt(_, _, _, _, _), MCls(_, _, _, _, _, _)

M(todo, text, p, caps) ==
    LET k == Kind(todo)
        n == Head(todo)
        rest == Tail(todo)
    IN  CASE k = "end" -> [ok |-> TRUE, pos |-> p, caps |-> caps]
          [] k = "cls" /\ ClsAt(n, text, p) -> M(rest, text, p + 1, caps)
          [] k = "lit" /\ LitAt(n, text, p) -> M(rest, text, p + Len(n.s), caps)
          [] k = "wb" /\ AtWordBoundary(text, p) -> M(rest, text, p, caps)
          [] k = "seq" -> M(n.xs \o rest, text, p, caps)
          [] k = "alt" -> MAlt(n.xs, rest, text, p, caps)
          [] k = "grp" ->
                M(<<n.x, [t |-> "close", k |-> n.k, start |-> p]>> \o rest,
                  text, p, caps)
          [] k = "close" ->
                M(rest, text, p, [caps EXCEPT ![n.k] = <<n.start, p>>])
          [] k = "rep" /\ FixedCls(n, text, p) ->
                M(rest, text, p + (CHOOSE j \in ClsRounds(n, text, p) : TRUE), caps)
          [] k = "rep" /\ n.x.t = "cls" /\ ~FixedCls(n, text, p) ->
                MCls(ClsRounds(n, text, p), n.lazy, rest, text, p, caps)
          [] k = "rep" /\ n.x.t # "cls" ->
                M(<<[t |-> "loop", r |-> n, count |-> 0, from |-> 0]>> \o rest,
                  text, p, caps)
          [] k = "loop" ->
                LET r == n.r
                    w == RoundWidth(r, text, p)
                    stop == IF n.count >= r.min THEN M(rest, text, p, caps)
                            ELSE NoMatchFound
                    more == IF r.max = Unbounded \/ n.count + w <= r.max
                            THEN M(<<r.x, [n EXCEPT !.count = @ + w, !.from = p]>>
                                       \o rest, text, p, caps)
                            ELSE NoMatchFound
                IN  IF r.max = Unbounded /\ n.from = p THEN NoMatchFound
                    ELSE IF r.lazy THEN (IF stop.ok THEN stop ELSE more)
                    ELSE (IF more.ok THEN more ELSE stop)
          [] OTHER -> NoMatchFound

\* the alternatives in their order
MAlt(xs, rest, text, p, caps) ==
    IF xs = <<>> THEN NoMatchFound
    ELSE LET m == M(<<Head(xs)>> \o rest, text, p, caps)
         IN  IF m.ok THEN m ELSE MAlt(Tail(xs), rest, text, p, caps)

\* the rounds js of a repeated class in their order
MCls(js, lazy, rest, text, p, caps) ==
    IF js = {} THEN NoMatchFound
    ELSE LET j == IF lazy THEN CHOOSE k \in js : \A l \in js : k <= l
                  ELSE CHOOSE k \in js : \A l \in js : k >= l
             m == M(rest, text, p + j, caps)
         IN  IF m.ok THEN m ELSE MCls(js \ {j}, lazy, rest, text, p, caps)

\* the match that starts at the least of the positions starts
match_from(n, g, text, starts) ==
    IF starts = {}
    THEN [ok |-> FALSE, start |-> 0, end |-> 0, caps |-> NoGroups(g)]
    ELSE LET q == CHOOSE k \in starts : \A l \in starts : k <= l
             m == M(<<n>>, text, q, NoGroups(g))
         IN  [ok |-> TRUE, start |-> q, end |-> m.pos, caps |-> m.caps]

\* the match at the leftmost position from p on that has one
regex_search_from(n, g, text, p) ==
    match_from(n, g, text,
               {q \in p..(Len(text) + 1) : M(<<n>>, text, q, NoGroups(g)).ok})

\* re.search(pattern, text) for a pattern with g groups
regex_search(n, g, text) == regex_search_from(n, g, text, 1)

\* match.group(k)
GroupText(m, text, k) == SubSeq(text, m.caps[k][1], m.caps[k][2] - 1)

----------------------------------------------------------------------------
(* SimpleResumeParser._extract_experience *)

Year4 == Rep(Cls("digit"), 4, 4)                                        \* \d{4}
MonthYear == Seq_(<<Rep(Cls("digit"), 1, 2), Cls("slash"), Year4>>)      \* \d{1,2}/\d{4}
Spaces == Rep(Cls("space"), 0, Unbounded)                                \* \s*

\* lines 212-216
experience_patterns == <<
    \* (\d{4})\s*[-\u2013]\s*(\d{4}|present|current)
    Seq_(<<Grp(1, Year4), Spaces, Cls("dash"), Spaces,
           Grp(2, Alt(<<Year4, LitI("present"), LitI("current")>>))>>),
    \* (\d{4})\s*[-\u2013]\s*(present|current)
    Seq_(<<Grp(1, Year4), Spaces, Cls("dash"), Spaces,
           Grp(2, Alt(<<LitI("present"), LitI("current")>>))>>),
    \* (\d{1,2}/\d{4})\s*[-\u2013]\s*(\d{1,2}/\d{4}|present|current)
    Seq_(<<Grp(1, MonthYear), Spaces, Cls("dash"), Spaces,
           Grp(2, Alt(<<MonthYear, LitI("present"), LitI("current")>>))>>) >>

\* lines 229-241: the neighbouring line when it has more than 3 characters
ContextLine(lines, i) ==
    IF i >= 1 /\ i <= Len(lines) /\ StrLen(strip(lines[i])) > 3 THEN strip(lines[i]) ELSE <<>>

\* lines 225-253: the entry a match on line i makes
\* lines 243-245: the start year is the first year of the start period
start_year_at(start_period, y) ==
    IF y # 0 THEN SubSeq(start_period, y, y + 3) ELSE start_period

experience_of(lines, i, start_period, end_period) ==
    [role |-> ContextLine(lines, i - 1),
     company |-> ContextLine(lines, i + 1),
     start_year |-> start_year_at(start_period, year_match(start_period)),
     end_year |-> end_period,
     period |-> start_period \o S(" - ") \o end_period]

ExperienceEntry(lines, i, m) ==
    experience_of(lines, i, GroupText(m, lines[i], 1), GroupText(m, lines[i], 2))

\* lines 222-253: every pattern is tried on the line, and every one that
\* matches appends an entry
\* lines 224-251: the entry a match m on line i appends
matched_entry(lines, i, m) ==
    IF m.ok THEN <<ExperienceEntry(lines, i, m)>> ELSE <<>>

RECURSIVE line_entries(_, _, _)
line_entries(lines, i, pats) ==
    IF pats = <<>> THEN <<>>
    ELSE matched_entry(lines, i, regex_search(Head(pats), 2, lines[i]))
         \o line_entries(lines, i, Tail(pats))

RECURSIVE all_entries(_, _)
all_entries(lines, i) ==
    IF i > Len(lines) THEN <<>>
    ELSE line_entries(lines, i, experience_patterns) \o all_entries(lines, i + 1)

\* lines 209-255
first_entries(experiences) == SubSeq(experiences, 1, Min(5, Len(experiences)))

extract_experience(text) == first_entries(all_entries(split_lines(text), 1))

----------------------------------------------------------------------------
(* SimpleResumeParser._extract_name *)

\* line 136
non_name_words ==
    Strs(<<"resume", "cv", "experience", "skills", "education", "phone", "email", "@">>)

\* lines 133-139: the test a stripped line has to pass
LooksLikeName(line) ==
    /\ line # <<>>
    /\ TokenCount(line) <= 4
    /\ StrLen(line) > 2
    /\ ~\E k \in 1..Len(non_name_words) :
           InStr(lower(non_name_words[k]), lower(Short(line)))
    /\ \E i \in 1..Len(line) : IsLetter(line[i])

RECURSIVE first_name(_)
first_name(lines) ==
    IF lines = <<>> THEN NULL
    ELSE IF LooksLikeName(strip(Head(lines))) THEN strip(Head(lines))
    ELSE first_name(Tail(lines))

\* line 132: lines[:10]
first_lines(lines) == SubSeq(lines, 1, Min(10, Len(lines)))

\* lines 129-142
extract_name(text) == first_name(first_lines(split_lines(text)))

----------------------------------------------------------------------------
(* SimpleResumeParser._extract_email *)

\* line 146: \b[A-Za-z0-9._%+-]+@[A-Za-z0-9.-]+\.[A-Z|a-z]{2,}\b
email_pattern ==
    Seq_(<<WordBoundary, Rep(Cls("local"), 1, Unbounded), Lit("@"),
           Rep(Cls("host"), 1, Unbounded), Lit("."), Rep(Cls("tld"), 2, Unbounded),
           WordBoundary>>)

\* lines 144-148
matched_text(text, m) == IF m.ok THEN SubSeq(text, m.start, m.end - 1) ELSE NULL

extract_email(text) == matched_text(text, regex_search(email_pattern, 0, text))

----------------------------------------------------------------------------
(* SimpleResumeParser._extract_skills and _extract_technologies *)

\* lines 168-177
common_skills == Strs(<<
    "python", "java", "javascript", "react", "node.js", "sql", "aws",
    "docker", "kubernetes", "machine learning", "ai", "data science",
    "project management", "agile", "scrum", "git", "devops",
    "html", "css", "typescript", "angular", "vue", "mongodb",
    "postgresql", "mysql", "redis", "elasticsearch", "kafka",
    "spring", "django", "flask", "express", "fastapi", "rest api",
    "microservices", "cloud computing", "azure", "gcp", "jenkins",
    "ci/cd", "terraform", "ansible", "linux", "windows", "macos" >>)

\* lines 191-198
technologies == Strs(<<
    "python", "java", "javascript", "typescript", "react", "angular",
    "vue", "node.js", "express", "django", "flask", "spring",
    "postgresql", "mysql", "mongodb", "redis", "elasticsearch",
    "aws", "azure", "gcp", "docker", "kubernetes", "jenkins",
    "git", "github", "gitlab", "jira", "confluence", "figma",
    "photoshop", "illustrator", "sketch" >>)

\* str.title(): a letter is upper-cased after a non-letter, lower-cased
\* after a letter
title(s) ==
    [i \in 1..Len(s) |->
        IF i = 1 \/ ~IsLetter(s[i - 1]) THEN Ch(UpperCh(s[i].ch)) ELSE Ch(LowerCh(s[i].ch))]

\* lines 179-186 and 200-207: list(set(...)) has no order of its own, so
\* the result is taken as the set of its members
found_keywords(keywords, text) ==
    LET text_lower == lower(Short(text))
    IN  {title(keywords[k]) : k \in {j \in 1..Len(keywords) : InStr(lower(keywords[j]), text_lower)}}

extract_skills(text) == found_keywords(common_skills, text)

extract_technologies(text) == found_keywords(technologies, text)

----------------------------------------------------------------------------
(* SimpleResumeParser._extract_education *)

\* line 259
education_keywords == Strs(<<
    "education", "degree", "university", "college", "bachelor", "master", "phd",
    "b.tech", "m.tech", "mba" >>)

\* lines 263-279
RECURSIVE education_entries(_, _)
education_entries(lines, i) ==
    IF i > Len(lines) THEN <<>>
    ELSE (IF AnyWordIn(education_keywords, lower(Short(lines[i])))
          THEN <<[degree |-> strip(lines[i]), institution |-> ContextLine(lines, i + 1)]>>
          ELSE <<>>)
         \o education_entries(lines, i + 1)

\* lines 257-281
extract_education(text) ==
    LET education == education_entries(split_lines(text), 1)
    IN  SubSeq(education, 1, Min(3, Len(education)))

----------------------------------------------------------------------------
(* SimpleResumeParser._extract_current_position *)

Spaces1 == Rep(Cls("space"), 1, Unbounded)                               \* \s+
OptWorking == Rep(Seq_(<<LitI("working"), Spaces1>>), 0, 1)            \* (?:working\s+)?
OptAs == Rep(Seq_(<<LitI("as"), Spaces1>>), 0, 1)                      \* (?:as\s+)?
AtSign == Alt(<<LitI("at"), Lit("@")>>)                                \* (?:at|@)

\* lines 292-295
current_patterns == <<
    \* current(?:ly)?\s+(?:working\s+)?(?:as\s+)?(.+?)(?:at|@)\s+(.+)
    Seq_(<<LitI("current"), Rep(LitI("ly"), 0, 1), Spaces1, OptWorking, OptAs,
           Grp(1, RepLazy(Cls("any"), 1, Unbounded)), AtSign, Spaces1,
           Grp(2, Rep(Cls("any"), 1, Unbounded))>>),
    \* (?:working\s+)?(?:as\s+)?(.+?)\s+(?:at|@)\s+(.+)
    Seq_(<<OptWorking, OptAs, Grp(1, RepLazy(Cls("any"), 1, Unbounded)), Spaces1,
           AtSign, Spaces1, Grp(2, Rep(Cls("any"), 1, Unbounded))>>) >>

\* lines 297-304
RECURSIVE first_position_match(_, _), position_match(_, _, _)
first_position_match(pats, t) ==
    IF pats = <<>> THEN [role |-> <<>>, company |-> <<>>]
    ELSE position_match(pats, t, regex_search(Head(pats), 2, t))

\* lines 299-303: m is the match of the first of pats
position_match(pats, t, m) ==
    IF m.ok
    THEN [role |-> strip(GroupText(m, t, 1)), company |-> strip(GroupText(m, t, 2))]
    ELSE first_position_match(Tail(pats), t)

\* lines 285-290: the latest experience gives the position when there is one
latest_position(experiences, text) ==
    IF experiences # <<>>
    THEN [role |-> experiences[1].role, company |-> experiences[1].company]
    ELSE first_position_match(current_patterns, text)

\* lines 283-304
extract_current_position(text) == latest_position(extract_experience(text), text)

----------------------------------------------------------------------------
(* SimpleResumeParser._classify_domain *)

\* lines 336-350: the keyword groups in the order of the if/elif chain
domain_groups == <<
    [label |-> "frontend",
     words |-> Strs(<<"frontend", "ui", "ux", "react", "angular", "vue", "html", "css">>)],
    [label |-> "backend",
     words |-> Strs(<<"backend", "api", "server", "database", "sql", "nosql">>)],
    [label |-> "fullstack",
     words |-> Strs(<<"fullstack", "full-stack", "full stack">>)],
    [label |-> "data_science",
     words |-> Strs(<<"data science", "machine learning", "ai", "ml", "analytics">>)],
    [label |-> "devops",
     words |-> Strs(<<"devops", "cloud", "aws", "azure", "docker", "kubernetes">>)],
    [label |-> "mobile",
     words |-> Strs(<<"mobile", "ios", "android", "react native", "flutter">>)],
    [label |-> "qa",
     words |-> Strs(<<"qa", "testing", "quality assurance", "test automation">>)],
    [label |-> "product",
     words |-> Strs(<<"product", "project management", "agile", "scrum">>)] >>

\* the chain tested from its last group back to its first
RECURSIVE last_group(_, _)
last_group(groups, text_lower) ==
    IF groups = <<>> THEN "general"
    ELSE IF AnyWordIn(groups[Len(groups)].words, text_lower)
    THEN groups[Len(groups)].label
    ELSE last_group(SubSeq(groups, 1, Len(groups) - 1), text_lower)

RECURSIVE first_group(_, _)
first_group(groups, text_lower) ==
    IF groups = <<>> THEN "general"
    ELSE IF AnyWordIn(Head(groups).words, text_lower) THEN Head(groups).label
    ELSE first_group(Tail(groups), text_lower)

\* lines 331-353; the skills argument is not used
classify_domain(text, skills) ==
    first_group(domain_groups, lower(Short(text)))

----------------------------------------------------------------------------
(* SimpleResumeParser.parse_resume *)

\* what reading the file's bytes as text gives: the text of a txt file, and
\* for the zip container of a docx file some unrelated characters
RawText(file) ==
    IF file.ext = "docx" THEN <<Letters(2), SP, Letters(5)>> ELSE file.text

\* extract_text with a pdf library failure raised to parse_resume
extract_text_pdf_raises(file_type, file, fault) ==
    CASE file_type = "pdf" ->
            IF fault = "none" THEN [raised |-> FALSE, text |-> file.text]
            ELSE [raised |-> TRUE, text |-> <<>>]
      [] file_type = "docx" ->
            IF fault = "none" THEN [raised |-> FALSE, text |-> file.text]
            ELSE IF fault = "lib" THEN [raised |-> FALSE, text |-> RawText(file)]
            ELSE [raised |-> TRUE, text |-> <<>>]
      [] file_type = "txt" ->
            IF fault = "io" THEN [raised |-> TRUE, text |-> <<>>]
            ELSE [raised |-> FALSE, text |-> file.text]

\* _extract_text_from_pdf / _docx / _txt; fault is what goes wrong inside:
\* "lib" the extraction library fails, "io" the file cannot be read at all
extract_text(file_type, file, fault) ==
    CASE file_type = "pdf" ->
            IF fault = "none" THEN [raised |-> FALSE, text |-> file.text]
            ELSE [raised |-> FALSE, text |-> <<>>]
      [] file_type = "docx" ->
            IF fault = "none" THEN [raised |-> FALSE, text |-> file.text]
            ELSE IF fault = "lib" THEN [raised |-> FALSE, text |-> RawText(file)]
            ELSE [raised |-> TRUE, text |-> <<>>]
      [] file_type = "txt" ->
            IF fault = "io" THEN [raised |-> TRUE, text |-> <<>>]
            ELSE [raised |-> FALSE, text |-> file.text]

\* the value of every field when nothing is found
NoFacts ==
    [name |-> NULL, email |-> NULL, phone |-> NULL,
     current_role |-> <<>>, current_company |-> <<>>,
     years_experience |-> 0, domain |-> "general",
     skills |-> {}, technologies |-> {}, experience |-> <<>>, education |-> <<>>]

\* lines 93-127: raises when _extract_phone raises, which no other
\* extractor does
structured_data(text, phone, skills, experience, position) ==
    IF phone.kind = "raise" THEN [raised |-> TRUE, data |-> NoFacts]
    ELSE [raised |-> FALSE,
          data |-> [name |-> extract_name(text),
                    email |-> extract_email(text),
                    phone |-> phone.val,
                    current_role |-> position.role,
                    current_company |-> position.company,
                    years_experience |-> calculate_years_experience(experience),
                    domain |-> classify_domain(text, skills),
                    skills |-> skills,
                    technologies |-> extract_technologies(text),
                    experience |-> experience,
                    education |-> extract_education(text)]]

extract_structured_data(text) ==
    structured_data(text, extract_phone(text), extract_skills(text),
                    extract_experience(text), extract_current_position(text))

max_file_size == 10485760

\* the texts of the uploaded documents
DocTexts ==
    {<<>>,
     <<Letters(400)>>,
     <<Letters(4), SP>> \o Str(<<"9", "8", "7", "-", "6", "5", "4", "-", "3", "2", "1", "0">>),
     <<Letters(400), NL, NL, Letters(400), NL, NL, Letters(400)>>,
     <<Letters(398), DOT, Letters(400), DOT, Letters(1)>>}

Files ==
    [ext : {"txt"}, size : {1024}, text : DocTexts]
    \cup [ext : {"pdf", "docx", "exe"}, size : {1024}, text : {<<Letters(400)>>}]
    \cup [ext : {"txt"}, size : {max_file_size + 1}, text : {<<Letters(400)>>}]

\* the texts text extraction can give for the files of Files
ExtractedTexts ==
    {<<>>} \cup {f.text : f \in Files} \cup {RawText(f) : f \in Files}

\* _extract_structured_data on those texts, worked out once
structured_data_of == [t \in ExtractedTexts |-> extract_structured_data(t)]

\* line 33: f"Unsupported file type: {file_type}"
unsupported_error_no_tag(file_type) == <<"Unsupported file type">>

unsupported_error(file_type) == <<"Unsupported file type: ", file_type>>

\* lines 39-59: the result for the extracted text t
parsed_facts(t, d) ==
    IF d.raised
    THEN [success |-> FALSE,
          error |-> <<"sequence item 0: expected str instance, NoneType found">>,
          parsed_data |-> NoFacts, raw_text |-> <<>>]
    ELSE [success |-> TRUE, error |-> NULL,
          parsed_data |-> d.data, raw_text |-> t.text]

parsed_text(t) ==
    IF t.raised
    THEN [success |-> FALSE, error |-> <<"[Errno 5] Input/output error">>,
          parsed_data |-> NoFacts, raw_text |-> <<>>]
    ELSE parsed_facts(t, structured_data_of[t.text])

parse_resume(file_type, file, fault) ==
    IF file_type \notin {"pdf", "docx", "txt"}
    THEN [success |-> FALSE, error |-> unsupported_error(file_type),
          parsed_data |-> NoFacts, raw_text |-> <<>>]
    ELSE parsed_text(extract_text(file_type, file, fault))

----------------------------------------------------------------------------
(* upload_resume and process_resume *)

NumRequests == 1

Requests == 1..NumRequests

default_allowed_extensions == {"pdf", "docx", "txt"}

SettingsChoices ==
    {[allowed_extensions |-> default_allowed_extensions],
     [allowed_extensions |-> default_allowed_extensions \cup {"exe"}]}

NoFile == [ext |-> "", size |-> 0, text |-> <<>>]

\* a Resume row as the model class creates it
NewResume(id, filename, file) ==
    [id |-> id, filename |-> filename, file_type |-> file.ext, file_size |-> file.size,
     is_processed |-> FALSE, is_indexed |-> FALSE, processing_error |-> NULL,
     openai_file_id |-> NULL, chunks_count |-> 0,
     candidate_name |-> NULL, email |-> NULL, phone |-> NULL,
     current_role |-> NULL, current_company |-> NULL, years_experience |-> NULL,
     domain |-> NULL, skills |-> NULL, technologies |-> NULL,
     experience |-> NULL, education |-> NULL]

NoParse == [success |-> FALSE, error |-> NULL, parsed_data |-> NoFacts, raw_text |-> <<>>]

IdleLocals ==
    [file |-> NoFile,        \* the uploaded file
     resume_id |-> 0,        \* the argument of process_resume, 0 before the call
     resume |-> 0,           \* id of the row bound to the local `resume`, 0 unbound
     parse_result |-> NoParse,
     parsed |-> FALSE,       \* whether parse_resume has been called
     extraction |-> "none",  \* what went wrong inside text extraction
     chunks |-> <<>>,
     exc |-> NULL,           \* str() of the exception in flight
     faults |-> {},          \* the collaborator calls that failed so far
     response |-> 0,         \* HTTP status sent, 0 before
     body |-> <<>>]          \* the body sent with it

EmptySession == [dirty |-> <<>>, added |-> <<>>]

\* attribute assignments on the loaded object are kept until commit
SetAttrs(sess, attrs) ==
    [sess EXCEPT !.dirty =
        [a \in (DOMAIN sess.dirty) \cup (DOMAIN attrs) |->
            IF a \in DOMAIN attrs THEN attrs[a] ELSE sess.dirty[a]]]

Flushed(row, dirty) ==
    [a \in DOMAIN row |-> IF a \in DOMAIN dirty THEN dirty[a] ELSE row[a]]

\* a commit that flushes the pending changes of every session, as one
\* session shared by all the callers would
CommittedAllSessions(p, id, attrs) ==
    /\ resumes' = [i \in DOMAIN resumes |->
            LET own == IF i = id THEN Flushed(resumes[i], SetAttrs(session[p], attrs).dirty)
                       ELSE resumes[i]
                others == {q \in DOMAIN session : q # p /\ req[q].resume = i}
            IN  IF others = {} THEN own
                ELSE Flushed(own, session[CHOOSE q \in others : TRUE].dirty)]
    /\ chunk_rows' = chunk_rows \o session[p].added
    /\ session' = [q \in DOMAIN session |-> EmptySession]

\* db.commit() going through, after the assignments attrs to the row id:
\* the session's changes reach the tables
Committed(p, id, attrs) ==
    /\ resumes' = [resumes EXCEPT ![id] = Flushed(@, SetAttrs(session[p], attrs).dirty)]
    /\ chunk_rows' = chunk_rows \o session[p].added
    /\ session' = [session EXCEPT ![p] = EmptySession]

\* db.commit() raising: the transaction is rolled back, the changes are lost
RolledBack(p) ==
    /\ session' = [session EXCEPT ![p] = EmptySession]
    /\ UNCHANGED <<resumes, chunk_rows>>

Init ==
    /\ resumes = <<>>
    /\ chunk_rows = <<>>
    /\ temp_files = {}
    /\ storage = {}
    /\ settings \in SettingsChoices
    /\ loop = 0
    /\ pc = [p \in Requests |-> "start"]
    /\ req = [p \in Requests |-> IdleLocals]
    /\ session = [p \in Requests |-> EmptySession]
    /\ fin = <<>>
    /\ fout = <<>>
    /\ fstage = "idle"

Fail(p, step, msg, next) ==
    /\ req' = [req EXCEPT ![p].exc = msg, ![p].faults = @ \cup {step}]
    /\ pc' = [pc EXCEPT ![p] = next]

\* upload_resume, lines 32-82 and 94-99: validation, the store, the new row.
\* A handler runs on the event loop without suspending, so a request starts
\* only when no other is running.
Upload(p) ==
    /\ pc[p] = "start"
    /\ loop = 0
    /\ \E file \in Files, fault \in {"none", "storage", "commit"} :
        LET valid == file.ext \in settings.allowed_extensions /\ file.size <= max_file_size
            id == Len(resumes) + 1
        IN  IF ~valid
            THEN \* lines 94-99: the HTTPException(400) of lines 40 and 48 is caught
                 \* by `except Exception` and replaced
                 /\ req' = [req EXCEPT ![p].file = file, ![p].response = 500,
                                           ![p].body = <<"Error uploading resume">>]
                 /\ pc' = [pc EXCEPT ![p] = "done"]
                 /\ UNCHANGED <<resumes, chunk_rows, session, storage, loop>>
            ELSE IF fault = "storage"
            THEN /\ req' = [req EXCEPT ![p].file = file, ![p].response = 500,
                                           ![p].body = <<"Error uploading resume">>]
                 /\ pc' = [pc EXCEPT ![p] = "done"]
                 /\ UNCHANGED <<resumes, chunk_rows, session, storage, loop>>
            ELSE IF fault = "commit"
            THEN /\ req' = [req EXCEPT ![p].file = file, ![p].response = 500,
                                           ![p].body = <<"Error uploading resume">>]
                 /\ pc' = [pc EXCEPT ![p] = "done"]
                 /\ storage' = storage \cup {p}
                 /\ UNCHANGED <<resumes, chunk_rows, session, loop>>
            ELSE /\ storage' = storage \cup {p}
                 /\ resumes' = Append(resumes, NewResume(id, p, file))
                 /\ req' = [req EXCEPT ![p].file = file, ![p].resume_id = id]
                 /\ pc' = [pc EXCEPT ![p] = "query"]
                 /\ loop' = p
                 /\ UNCHANGED <<chunk_rows, session>>
    /\ UNCHANGED <<temp_files, settings, fin, fout, fstage>>

\* the id upload_resume passes to process_resume: the row it has just added
UploadedId(p) ==
    CHOOSE id \in 1..Len(resumes) : resumes[id].filename = p

\* lines 361-364: the row is loaded, or the pass returns when there is none
Query(p) ==
    /\ pc[p] = "query"
    /\ \E ok \in BOOLEAN :
        IF ok
        THEN IF req[p].resume_id \in 1..Len(resumes)
             THEN /\ req' = [req EXCEPT ![p].resume = req[p].resume_id]
                  /\ pc' = [pc EXCEPT ![p] = "download"]
             ELSE /\ pc' = [pc EXCEPT ![p] = "returned"]
                  /\ UNCHANGED req
        ELSE Fail(p, "query", <<"(OperationalError) server closed the connection">>, "except")
    /\ UNCHANGED <<resumes, chunk_rows, temp_files, session, storage, settings, loop,
                   fin, fout, fstage>>

\* Download without the test of line 372: a missing file goes on to the
\* temp file and the parser
DownloadNoneIgnored(p) ==
    /\ pc[p] = "download"
    /\ \E ok \in BOOLEAN :
        /\ pc' = [pc EXCEPT ![p] = "tempfile"]
        /\ req' = [req EXCEPT ![p].faults = IF ok THEN @ ELSE @ \cup {"download"}]
    /\ UNCHANGED <<resumes, chunk_rows, temp_files, session, storage, settings, loop,
                   fin, fout, fstage>>

\* lines 370-373
Download(p) ==
    /\ pc[p] = "download"
    /\ \E ok \in BOOLEAN :
        IF ok
        THEN /\ pc' = [pc EXCEPT ![p] = "tempfile"]
             /\ UNCHANGED req
        ELSE Fail(p, "download", <<"Could not download file from MinIO">>, "except")
    /\ UNCHANGED <<resumes, chunk_rows, temp_files, session, storage, settings, loop,
                   fin, fout, fstage>>

\* lines 379-381: "create" fails before the file exists, "write" after
TempFile(p) ==
    /\ pc[p] = "tempfile"
    /\ \E fault \in {"none", "create", "write"} :
        CASE fault = "none" ->
                /\ temp_files' = temp_files \cup {p}
                /\ pc' = [pc EXCEPT ![p] = "parse"]
                /\ UNCHANGED req
          [] fault = "create" ->
                /\ UNCHANGED temp_files
                /\ Fail(p, "tempfile", <<"[Errno 24] Too many open files">>, "except")
          [] fault = "write" ->
                /\ temp_files' = temp_files \cup {p}
                /\ Fail(p, "tempfile", <<"[Errno 28] No space left on device">>, "except")
    /\ UNCHANGED <<resumes, chunk_rows, session, storage, settings, loop, fin, fout, fstage>>

\* lines 389-391
Parse(p) ==
    /\ pc[p] = "parse"
    /\ \E fault \in {"none", "lib", "io"} :
        \E r \in {parse_resume(resumes[req[p].resume].file_type, req[p].file, fault)} :
            /\ req' = [req EXCEPT ![p].parse_result = r, ![p].parsed = TRUE,
                                  ![p].extraction = fault]
            /\ pc' = [pc EXCEPT ![p] = IF r.success THEN "update" ELSE "mark_failed"]
    /\ UNCHANGED <<resumes, chunk_rows, temp_files, session, storage, settings, loop,
                   fin, fout, fstage>>

\* lines 408-419 and 426: the assignments of the success branch
\* lines 408-418: the columns taken from parsed_data
fact_attrs(parsed_data) ==
    [candidate_name |-> parsed_data.name, email |-> parsed_data.email,
     phone |-> parsed_data.phone, current_role |-> parsed_data.current_role,
     current_company |-> parsed_data.current_company,
     years_experience |-> parsed_data.years_experience, domain |-> parsed_data.domain,
     skills |-> parsed_data.skills, technologies |-> parsed_data.technologies,
     experience |-> parsed_data.experience, education |-> parsed_data.education]

metadata_attrs_if_found(parsed_data, chunks) ==
    [a \in DOMAIN fact_attrs(parsed_data) \cup {"is_processed", "chunks_count"} |->
        CASE a = "is_processed" -> parsed_data # NoFacts
          [] a = "chunks_count" -> Len(chunks)
          [] OTHER -> fact_attrs(parsed_data)[a]]

\* the assignments without that of line 419
metadata_attrs_unprocessed(parsed_data, chunks) ==
    [a \in DOMAIN fact_attrs(parsed_data) \cup {"chunks_count"} |->
        CASE a = "chunks_count" -> Len(chunks)
          [] OTHER -> fact_attrs(parsed_data)[a]]

metadata_attrs(parsed_data, chunks) ==
    [a \in DOMAIN fact_attrs(parsed_data) \cup {"is_processed", "chunks_count"} |->
        CASE a = "is_processed" -> TRUE
          [] a = "chunks_count" -> Len(chunks)
          [] OTHER -> fact_attrs(parsed_data)[a]]

\* lines 408-426
UpdateMetadata(p) ==
    /\ pc[p] = "update"
    /\ LET chunks == chunk_text(req[p].parse_result.raw_text)
       IN  /\ session' = [session EXCEPT ![p] =
                SetAttrs(@, metadata_attrs(req[p].parse_result.parsed_data, chunks))]
           /\ req' = [req EXCEPT ![p].chunks = chunks]
    /\ pc' = [pc EXCEPT ![p] = "save_chunks"]
    /\ UNCHANGED <<resumes, chunk_rows, temp_files, storage, settings, loop, fin, fout, fstage>>

\* the same with the chunks numbered from 1
ResumeChunkFromOne(resume_id, i, chunk) ==
    [resume_id |-> resume_id, chunk_index |-> i + 1, content |-> chunk,
     chunk_size |-> StrLen(chunk)]

\* lines 432-437
ResumeChunk(resume_id, i, chunk) ==
    [resume_id |-> resume_id, chunk_index |-> i, content |-> chunk, chunk_size |-> StrLen(chunk)]

\* lines 431-438: the loop adds the chunks in order; n is how many it adds
\* before a db.add raises (all of them when none does)
SaveChunks(p) ==
    /\ pc[p] = "save_chunks"
    /\ \E n \in 0..Len(req[p].chunks) :
        /\ session' = [session EXCEPT ![p].added =
                [i \in 1..n |-> ResumeChunk(req[p].resume, i - 1, req[p].chunks[i])]]
        /\ IF n = Len(req[p].chunks)
           THEN /\ pc' = [pc EXCEPT ![p] = "embed"]
                /\ UNCHANGED req
           ELSE Fail(p, "add", <<"(InvalidRequestError) object cannot be added">>, "finally")
    /\ UNCHANGED <<resumes, chunk_rows, temp_files, storage, settings, loop, fin, fout, fstage>>

\* lines 449-450: create_embeddings re-raises what the API raises, and the
\* caller only logs it
EmbedFailedPropagates(p) ==
    /\ Fail(p, "embed", <<"(APIConnectionError) Connection error.">>, "finally")
    /\ UNCHANGED session

EmbedFailed(p) ==
    /\ req' = [req EXCEPT ![p].faults = @ \cup {"embed"}]
    /\ pc' = [pc EXCEPT ![p] = "vector"]
    /\ UNCHANGED session

\* lines 444-450
Embed(p) ==
    /\ pc[p] = "embed"
    /\ \E ok \in BOOLEAN :
        IF ok
        THEN /\ session' = [session EXCEPT ![p] = SetAttrs(@, [is_indexed |-> TRUE])]
             /\ pc' = [pc EXCEPT ![p] = "vector"]
             /\ UNCHANGED req
        ELSE EmbedFailed(p)
    /\ UNCHANGED <<resumes, chunk_rows, temp_files, storage, settings, loop, fin, fout, fstage>>

\* lines 454-459
VectorUpload(p) ==
    /\ pc[p] = "vector"
    /\ \E ok \in BOOLEAN :
        IF ok
        THEN /\ session' = [session EXCEPT ![p] = SetAttrs(@, [openai_file_id |-> <<"file-id">>])]
             /\ UNCHANGED req
        ELSE /\ req' = [req EXCEPT ![p].faults = @ \cup {"vector"}]
             /\ UNCHANGED session
    /\ pc' = [pc EXCEPT ![p] = "commit"]
    /\ UNCHANGED <<resumes, chunk_rows, temp_files, storage, settings, loop, fin, fout, fstage>>

\* line 461
Commit(p) ==
    /\ pc[p] = "commit"
    /\ \E ok \in BOOLEAN :
        IF ok
        THEN /\ Committed(p, req[p].resume, <<>>)
             /\ pc' = [pc EXCEPT ![p] = "finally"]
             /\ UNCHANGED req
        ELSE /\ RolledBack(p)
             /\ Fail(p, "commit", <<"(OperationalError) could not commit">>, "finally")
    /\ UNCHANGED <<temp_files, storage, settings, loop, fin, fout, fstage>>

\* lines 464-467
MarkFailed(p) ==
    /\ pc[p] = "mark_failed"
    /\ \E ok \in BOOLEAN :
        IF ok
        THEN /\ Committed(p, req[p].resume, [processing_error |-> req[p].parse_result.error])
             /\ pc' = [pc EXCEPT ![p] = "finally"]
             /\ UNCHANGED req
        ELSE /\ RolledBack(p)
             /\ Fail(p, "commit", <<"(OperationalError) could not commit">>, "finally")
    /\ UNCHANGED <<temp_files, storage, settings, loop, fin, fout, fstage>>

\* the clean-up as the last statement of the try block instead of a
\* finally clause: an exception in flight skips it
FinallyOnSuccessOnly(p) ==
    /\ pc[p] = "finally"
    /\ IF req[p].exc = NULL
       THEN \E ok \in BOOLEAN :
            IF ok
            THEN /\ temp_files' = temp_files \ {p}
                 /\ pc' = [pc EXCEPT ![p] = "returned"]
                 /\ UNCHANGED req
            ELSE /\ UNCHANGED temp_files
                 /\ Fail(p, "unlink", <<"[Errno 13] Permission denied">>, "except")
       ELSE /\ pc' = [pc EXCEPT ![p] = "except"]
            /\ UNCHANGED <<temp_files, req>>
    /\ UNCHANGED <<resumes, chunk_rows, session, storage, settings, loop, fin, fout, fstage>>

\* lines 469-475: os.unlink in the finally clause; an exception raised in the
\* try block goes on to the handler afterwards, and one raised by unlink
\* takes its place
Finally(p) ==
    /\ pc[p] = "finally"
    /\ \E ok \in BOOLEAN :
        IF ok
        THEN /\ temp_files' = temp_files \ {p}
             /\ pc' = [pc EXCEPT ![p] = IF req[p].exc = NULL THEN "returned" ELSE "except"]
             /\ UNCHANGED req
        ELSE /\ UNCHANGED temp_files
             /\ Fail(p, "unlink", <<"[Errno 13] Permission denied">>, "except")
    /\ UNCHANGED <<resumes, chunk_rows, session, storage, settings, loop, fin, fout, fstage>>

\* line 479: what the handler assigns to the row
handler_attrs_log_only(msg) == <<>>

handler_attrs(msg) == [processing_error |-> msg]

\* lines 477-480: the handler; with `resume` unbound its first statement
\* raises UnboundLocalError, and a failing commit raises as well
Except(p) ==
    /\ pc[p] = "except"
    /\ IF req[p].resume = 0
       THEN /\ req' = [req EXCEPT ![p].exc =
                    <<"cannot access local variable 'resume'">>]
            /\ pc' = [pc EXCEPT ![p] = "raised"]
            /\ UNCHANGED <<resumes, chunk_rows, session>>
       ELSE \E ok \in BOOLEAN :
            IF ok
            THEN /\ Committed(p, req[p].resume, handler_attrs(req[p].exc))
                 /\ req' = [req EXCEPT ![p].exc = NULL]
                 /\ pc' = [pc EXCEPT ![p] = "returned"]
            ELSE /\ RolledBack(p)
                 /\ Fail(p, "handler_commit", <<"(OperationalError) could not commit">>, "raised")
    /\ UNCHANGED <<temp_files, storage, settings, loop, fin, fout, fstage>>

\* lines 86-92: ResumeUploadResponse, filled from the row; status and message
\* are the schema's defaults (original_filename is the name the client sent,
\* which the files of the model do not carry)
ResumeUploadResponse(row) ==
    [id |-> row.id, filename |-> row.filename, file_size |-> row.file_size,
     file_type |-> row.file_type, status |-> "uploaded",
     message |-> "Resume uploaded successfully"]

\* the handler goes on with the pass still running
PassInBackground(p) == pc[p] \notin {"start", "done"}

\* line 82: `await process_resume(...)`: the handler goes on when the pass
\* is over
PassAwaited(p) == pc[p] \in {"returned", "raised"}

\* lines 84-99: the response once process_resume is over
Respond(p) ==
    /\ PassAwaited(p)
    /\ req' = [req EXCEPT ![p] =
            IF pc[p] # "raised"
            THEN [IdleLocals EXCEPT !.response = 200,
                                    !.body = ResumeUploadResponse(resumes[UploadedId(p)])]
            ELSE [IdleLocals EXCEPT !.response = 500,
                                    !.body = <<"Error uploading resume">>]]
    /\ pc' = [pc EXCEPT ![p] = "done"]
    /\ session' = [session EXCEPT ![p] = EmptySession]
    /\ loop' = 0
    /\ UNCHANGED <<resumes, chunk_rows, temp_files, storage, settings, fin, fout, fstage>>

Next ==
    \E p \in Requests :
        \/ Upload(p)
        \/ Query(p)
        \/ Download(p)
        \/ TempFile(p)
        \/ Parse(p)
        \/ UpdateMetadata(p)
        \/ SaveChunks(p)
        \/ Embed(p)
        \/ VectorUpload(p)
        \/ Commit(p)
        \/ MarkFailed(p)
        \/ Finally(p)
        \/ Except(p)
        \/ Respond(p)

Spec == Init /\ [][Next]_vars


----------------------------------------------------------------------------
(* Properties of the processing pass *)

\* process_resume is over for request p: it returned or it raised
PassOver(p) == pc[p] \in {"returned", "raised"}

InPass(p) == pc[p] \notin {"start", "done"}

\* the committed row of the document that request p uploaded
DocOf(p) == resumes[UploadedId(p)]

ChunkRowsOf(id) == SelectSeq(chunk_rows, LAMBDA r : r.resume_id = id)

Contains(msg, part) == \E i \in 1..Len(msg) : msg[i] = part

Supported(file_type) == file_type \in {"pdf", "docx", "txt"}

\* C1: process_resume never propagates an exception to its caller, whichever
\* collaborator fails during the pass.
C1_NeverRaises ==
    \A p \in Requests : pc[p] # "raised"

\* C2: when process_resume returns, the committed row of the document is
\* terminal: is_processed is true or processing_error is set.
C2_ReturnsTerminal ==
    \A p \in Requests :
        pc[p] = "returned" =>
            DocOf(p).is_processed \/ DocOf(p).processing_error # NULL

\* a pass has returned after its commit failed, with the failure recorded
C2_Witness ==
    \E p \in Requests :
        /\ pc[p] = "returned"
        /\ "commit" \in req[p].faults
        /\ DocOf(p).processing_error # NULL
        /\ ~DocOf(p).is_processed

\* C3: no committed row has both is_processed = true and a processing_error.
C3_TerminalExclusive ==
    \A id \in 1..Len(resumes) :
        ~(resumes[id].is_processed /\ resumes[id].processing_error # NULL)

AllChunkRows(p) ==
    [i \in 1..Len(req[p].chunks) |-> ResumeChunk(req[p].resume, i - 1, req[p].chunks[i])]

ProcessedWithFacts(p) ==
    /\ DocOf(p).is_processed
    /\ \A a \in DOMAIN fact_attrs(NoFacts) :
           DocOf(p)[a] = fact_attrs(req[p].parse_result.parsed_data)[a]
    /\ DocOf(p).chunks_count = Len(req[p].chunks)
    /\ ChunkRowsOf(DocOf(p).id) = AllChunkRows(p)
    /\ DocOf(p).processing_error = NULL

----------------------------------------------------------------------------
(* The chunker on its own: chunk_text applied to every text of ChunkInputs *)

MaxTextLen == 5

ChunkAlphabet ==
    {Letters(1), Letters(398), Letters(400), NL, SP, DOT, Ch("!")}

ChunkInputs == UNION {[1..k -> ChunkAlphabet] : k \in 0..MaxTextLen}

\* the request machinery at rest, for the specifications of pure functions
NoRequests ==
    /\ resumes = <<>>
    /\ chunk_rows = <<>>
    /\ temp_files = {}
    /\ pc = <<>>
    /\ req = <<>>
    /\ session = <<>>
    /\ storage = {}
    /\ settings = <<>>
    /\ loop = 0

InitChunk ==
    /\ NoRequests
    /\ fin \in ChunkInputs
    /\ fout = <<>>
    /\ fstage = "in"

CallChunkText ==
    /\ fstage = "in"
    /\ fout' = chunk_text(fin)
    /\ fstage' = "out"
    /\ UNCHANGED <<server_vars, fin>>

NextChunk == CallChunkText

SpecChunk == InitChunk /\ [][NextChunk]_vars

\* a string with its whitespace removed and adjacent letter runs merged
RECURSIVE Squeeze(_)
Squeeze(s) ==
    IF s = <<>> THEN <<>>
    ELSE LET h == Head(s)
             r == Squeeze(Tail(s))
         IN  IF IsSpace(h) THEN r
             ELSE IF r # <<>> /\ h.ch = "x" /\ Head(r).ch = "x"
                  THEN <<Letters(h.n + Head(r).n)>> \o Tail(r)
                  ELSE <<h>> \o r

\* the sentences of a chunk: the pieces between terminators that hold text
SentencesOf(c) ==
    SelectSeq(re_split_sentences(c), LAMBDA p : strip(p) # <<>>)

SingleLongSentence(c) ==
    /\ Len(SentencesOf(c)) = 1
    /\ StrLen(strip(SentencesOf(c)[1])) > chunk_size

\* C7: every chunk returned by chunk_text has at most chunk_size characters,
\* unless it consists of one single sentence that alone is longer than
\* chunk_size.
C7_ChunkWithinSize ==
    fstage = "out" =>
        \A i \in 1..Len(fout) :
            StrLen(fout[i]) <= chunk_size \/ SingleLongSentence(fout[i])

\* C8: the chunks, concatenated in output order, are the input text up to
\* whitespace: no other character is dropped, changed, added or reordered.
C8_ChunksReconstructText ==
    fstage = "out" => Squeeze(Concat(fout)) = Squeeze(fin)

----------------------------------------------------------------------------
(* The phone extractor on its own *)

MaxPhonePrefix == 2

PhonePrefixAlphabet == {Letters(4), SP, NL, Ch("+"), Ch("1"), Ch("-")}
PhonePrefixes == UNION {[1..k -> PhonePrefixAlphabet] : k \in 0..MaxPhonePrefix}
PhoneSeparators == {<<>>, <<Ch("-")>>, <<SP>>, <<DOT>>}
PhoneSuffixes == {<<>>, <<SP>>, <<Ch("5")>>, <<SP, Letters(3)>>}

\* prefix, then 987 654 3210 (or 987 654 321) written with optional
\* parentheses and separators, then suffix
PhoneInputs ==
    {pre \o lp \o Str(<<"9", "8", "7">>) \o rp \o s1 \o Str(<<"6", "5", "4">>) \o s2
         \o Str(<<"3", "2", "1">>) \o last \o suf :
        pre \in PhonePrefixes, lp \in {<<>>, <<Ch("(")>>}, rp \in {<<>>, <<Ch(")")>>},
        s1 \in PhoneSeparators, s2 \in PhoneSeparators,
        last \in {<<>>, <<Ch("0")>>}, suf \in PhoneSuffixes}

InitPhone ==
    /\ NoRequests
    /\ fin \in PhoneInputs
    /\ fout = <<>>
    /\ fstage = "in"

CallExtractPhone ==
    /\ fstage = "in"
    /\ fout' = extract_phone(fin)
    /\ fstage' = "out"
    /\ UNCHANGED <<server_vars, fin>>

NextPhone == CallExtractPhone

SpecPhone == InitPhone /\ [][NextPhone]_vars

\* "Call 987-654-3210 now"
CallNowText ==
    <<Letters(4), SP>> \o Str(<<"9", "8", "7", "-", "6", "5", "4", "-", "3", "2", "1", "0">>)
        \o <<SP, Letters(3)>>

\* C9: the phone returned is the digits of the match with no separator and
\* no whitespace, leading or embedded; for "Call 987-654-3210 now" it is
\* exactly "9876543210".
C9_PhoneDigitsOnly ==
    (fstage = "out" /\ fout.kind = "str") =>
        /\ \A i \in 1..Len(fout.val) : IsDigit(fout.val[i])
        /\ fin = CallNowText =>
               fout.val = Str(<<"9", "8", "7", "6", "5", "4", "3", "2", "1", "0">>)

----------------------------------------------------------------------------
(* The years-of-experience sum on its own *)

MaxEntries == 2

StartTokens ==
    {Str(<<"2", "0", "1", "8">>), Str(<<"2", "0", "2", "0">>), Str(<<"2", "0", "3", "0">>),
     Str(<<"0", "0", "0", "0">>), Str(<<"1", "2", "/", "2", "0", "1", "9">>),
     Str(<<"2", "0">>), <<>>}

EndTokens ==
    {Str(<<"2", "0", "2", "0">>), Str(<<"2", "0", "1", "8">>),
     Str(<<"0", "6", "/", "2", "0", "2", "2">>),
     <<Word("present")>>, <<Word("Present")>>, <<Word("current")>>, <<>>}

ExperienceEntries == [start_year : StartTokens, end_year : EndTokens]

YearsInputs == UNION {[1..k -> ExperienceEntries] : k \in 0..MaxEntries}

InitYears ==
    /\ NoRequests
    /\ fin \in YearsInputs
    /\ fout = 0
    /\ fstage = "in"

CallCalculateYears ==
    /\ fstage = "in"
    /\ fout' = calculate_years_experience(fin)
    /\ fstage' = "out"
    /\ UNCHANGED <<server_vars, fin>>

NextYears == CallCalculateYears

SpecYears == InitYears /\ [][NextYears]_vars

HasYear(tok) == year_match(tok) # 0

EndIsNow(tok) == tok \in {<<Word("present")>>, <<Word("current")>>}

\* the end year of an entry as the claim gives it; a token with no year in
\* it, about which the claim is silent, counts as the reference year
ClaimedEndYear(tok) ==
    IF EndIsNow(tok) \/ ~HasYear(tok) THEN 2024 ELSE year_int(tok)

RECURSIVE ClaimedYears(_)
ClaimedYears(experience) ==
    IF experience = <<>> THEN 0
    ELSE LET e == Head(experience)
         IN  (IF HasYear(e.start_year)
              THEN Max(0, ClaimedEndYear(e.end_year) - year_int(e.start_year))
              ELSE 0)
             + ClaimedYears(Tail(experience))

\* the same sum, with the entries whose start year is 0 skipped as well
RECURSIVE AmendedYears(_)
AmendedYears(experience) ==
    IF experience = <<>> THEN 0
    ELSE LET e == Head(experience)
         IN  (IF HasYear(e.start_year) /\ year_int(e.start_year) # 0
              THEN Max(0, ClaimedEndYear(e.end_year) - year_int(e.start_year))
              ELSE 0)
             + AmendedYears(Tail(experience))

SpecExample ==
    <<[start_year |-> Str(<<"2", "0", "1", "8">>), end_year |-> Str(<<"2", "0", "2", "0">>)],
      [start_year |-> Str(<<"2", "0", "2", "0">>), end_year |-> <<Word("present")>>]>>

\* C10 as stated: the result is the sum over the entries of
\* max(0, end_year - start_year), skipping only the entries whose start
\* year cannot be parsed; it is never negative, 0 for the empty list and 6
\* for the example of the specification.
C10_YearsAsClaimed ==
    fstage = "out" =>
        /\ fout = ClaimedYears(fin)
        /\ fout >= 0
        /\ fin = <<>> => fout = 0
        /\ fin = SpecExample => fout = 6

\* C10 amended: the same, with an entry also skipped when its start year
\* parses to 0 (the token "0000").
C10_YearsAmended ==
    fstage = "out" =>
        /\ fout = AmendedYears(fin)
        /\ fout >= 0
        /\ fin = <<>> => fout = 0
        /\ fin = SpecExample => fout = 6

\* the call has returned a sum to which two entries contributed, one ending
\* in "present" and one with a start year of 0 that was skipped
C10_Witness ==
    /\ fstage = "out"
    /\ Len(fin) = 2
    /\ fin[1].start_year = Str(<<"0", "0", "0", "0">>)
    /\ fin[2].end_year = <<Word("present")>>
    /\ fout = 4

----------------------------------------------------------------------------
(* The domain classifier on its own *)

MaxDomainWords == 3

DomainVocabulary ==
    {"React", "html", "SQL", "build", "full", "stack", "Docker", "ios", "QA", "Agile",
     "team", "maintain"}

\* ' '.join(words)
RECURSIVE JoinWords(_)
JoinWords(ws) ==
    IF ws = <<>> THEN <<>>
    ELSE IF Len(ws) = 1 THEN S(ws[1])
    ELSE S(ws[1]) \o <<SP>> \o JoinWords(Tail(ws))

DomainInputs ==
    {JoinWords(ws) : ws \in UNION {[1..k -> DomainVocabulary] : k \in 0..MaxDomainWords}}

InitDomain ==
    /\ NoRequests
    /\ fin \in DomainInputs
    /\ fout = <<>>
    /\ fstage = "in"

CallClassifyDomain ==
    /\ fstage = "in"
    /\ fout' = classify_domain(fin, <<>>)
    /\ fstage' = "out"
    /\ UNCHANGED <<server_vars, fin>>

NextDomain == CallClassifyDomain

SpecDomain == InitDomain /\ [][NextDomain]_vars

\* the priority order of the labels
DomainPriority ==
    <<"frontend", "backend", "fullstack", "data_science", "devops", "mobile", "qa", "product">>

\* a keyword of the group with this label occurs in the lower-cased text
GroupOccurs(label, text) ==
    \E k \in 1..Len(domain_groups) :
        /\ domain_groups[k].label = label
        /\ AnyWordIn(domain_groups[k].words, lower(text))

\* C11: the label is the first one, in the order frontend, backend,
\* fullstack, data_science, devops, mobile, qa, product, whose group has a
\* keyword occurring in the lower-cased text, and "general" when there is
\* none; a text with "react" and "html" is "frontend", and so is a text
\* matching the frontend group and a later one.
C11_FirstGroupWins ==
    fstage = "out" =>
        /\ \A k \in 1..Len(DomainPriority) :
               fout = DomainPriority[k] <=>
                   /\ GroupOccurs(DomainPriority[k], fin)
                   /\ \A j \in 1..(k - 1) : ~GroupOccurs(DomainPriority[j], fin)
        /\ fout = "general" <=> \A k \in 1..Len(DomainPriority) : ~GroupOccurs(DomainPriority[k], fin)
        /\ (InStr(S("react"), lower(fin)) /\ InStr(S("html"), lower(fin))) => fout = "frontend"
        /\ GroupOccurs("frontend", fin) => fout = "frontend"

\* a text holding a frontend keyword after a backend keyword has been
\* labelled "frontend"
C11_Witness ==
    /\ fstage = "out"
    /\ fin = S("SQL React html")
    /\ GroupOccurs("backend", fin)
    /\ fout = "frontend"

----------------------------------------------------------------------------
(* The name extractor on its own *)

MaxPrefixLines == 10
MaxNameLines == 3

\* the lines of the head of a resume: names, headings, noise
NameLineChoices ==
    {S("Jo Li"), S("  Ann B. Cole "), S("My Resume"), S("CV"), S("a b c d e"), S("123")}

\* a line repeated k times, each followed by a line break
RECURSIVE Repeated(_, _)
Repeated(line, k) == IF k = 0 THEN <<>> ELSE line \o <<NL>> \o Repeated(line, k - 1)

\* '\n'.join(lines)
RECURSIVE JoinLines(_)
JoinLines(ls) ==
    IF ls = <<>> THEN <<>>
    ELSE IF Len(ls) = 1 THEN ls[1]
    ELSE ls[1] \o <<NL>> \o JoinLines(Tail(ls))

\* k blank lines, or k lines of digits, and then up to MaxNameLines lines
NameInputs ==
    {Repeated(filler, k) \o JoinLines(ls) :
        filler \in {<<>>, S("123")}, k \in 0..MaxPrefixLines,
        ls \in UNION {[1..m -> NameLineChoices] : m \in 0..MaxNameLines}}

InitName ==
    /\ NoRequests
    /\ fin \in NameInputs
    /\ fout = <<>>
    /\ fstage = "in"

CallExtractName ==
    /\ fstage = "in"
    /\ fout' = extract_name(fin)
    /\ fstage' = "out"
    /\ UNCHANGED <<server_vars, fin>>

NextName == CallExtractName

SpecName == InitName /\ [][NextName]_vars

\* the line has 1 to 4 tokens, more than 2 characters, a letter and none of
\* the excluded substrings
Qualifies(line) ==
    /\ TokenCount(line) \in 1..4
    /\ StrLen(line) > 2
    /\ \E i \in 1..Len(line) : IsLetter(line[i])
    /\ \A w \in {"resume", "cv", "experience", "skills", "education", "phone", "email", "@"} :
           ~InStr(S(w), lower(line))

\* the first 10 non-empty lines of the text, stripped
FirstTenNonEmpty(text) ==
    LET ls == split_lines(text)
        full == SelectSeq([i \in 1..Len(ls) |-> strip(ls[i])], LAMBDA l : l # <<>>)
    IN  SubSeq(full, 1, Min(10, Len(full)))

\* C20: the name is the first of the first 10 non-empty lines (blank lines
\* not counted) that has 1 to 4 tokens, length above 2, a letter and no
\* excluded substring, and null when none of them qualifies.
C20_NameFromNonEmptyLines ==
    fstage = "out" =>
        LET ten == FirstTenNonEmpty(fin)
            good == {i \in 1..Len(ten) : Qualifies(ten[i])}
        IN  IF good = {} THEN fout = NULL
            ELSE fout = ten[CHOOSE i \in good : \A j \in good : i <= j]

----------------------------------------------------------------------------
(* The experience extractor on its own, with the years computed from it *)

MaxExperienceLines == 3

ExperienceLineChoices ==
    {S("Engineer"), S("Acme Corp"), <<>>, S("2018 - 2020"), S("2020 - present"),
     S("01/2019 - 06/2022"), S("2019-Current"), S("3/2020 ") \o <<EN_DASH>> \o S(" present")}

ExperienceInputs ==
    {JoinLines(ls) : ls \in UNION {[1..m -> ExperienceLineChoices] : m \in 0..MaxExperienceLines}}

InitExperience ==
    /\ NoRequests
    /\ fin \in ExperienceInputs
    /\ fout = <<>>
    /\ fstage = "in"

\* lines 103 and 110 of _extract_structured_data
CallExtractExperience ==
    /\ fstage = "in"
    /\ fout' = [experience |-> extract_experience(fin),
                years_experience |-> calculate_years_experience(extract_experience(fin))]
    /\ fstage' = "out"
    /\ UNCHANGED <<server_vars, fin>>

NextExperience == CallExtractExperience

SpecExperience == InitExperience /\ [][NextExperience]_vars

\* the lines of the text that one of the three period patterns matches
LinesWithPeriod(text) ==
    LET ls == split_lines(text)
    IN  {i \in 1..Len(ls) :
            \E k \in 1..Len(experience_patterns) :
                regex_search(experience_patterns[k], 2, ls[i]).ok}

\* C19: every line gives at most one experience entry, so there is one
\* entry per line matched by a period pattern (5 at most); the line
\* "2020 - present" gives one entry and counts once, 4 years, in
\* years_experience.
C19_OneEntryPerLine ==
    fstage = "out" =>
        /\ Len(fout.experience) = Min(5, Cardinality(LinesWithPeriod(fin)))
        /\ fin = S("2020 - present") =>
               (Len(fout.experience) = 1 /\ fout.years_experience = 4)

----------------------------------------------------------------------------
(* _extract_structured_data on its own *)

MaxFactLines == 3

FactLineChoices ==
    {<<>>, S("Jo Li"), S("jo@ex.io"), S("(987) 654-3210"), S("Python, SQL, B.Tech"),
     S("2020 - present"), S("Dev at Acme"), <<Letters(400)>>}

FactInputs ==
    {JoinLines(ls) : ls \in UNION {[1..m -> FactLineChoices] : m \in 0..MaxFactLines}}

InitFacts ==
    /\ NoRequests
    /\ fin \in FactInputs
    /\ fout = <<>>
    /\ fstage = "in"

CallExtractStructuredData ==
    /\ fstage = "in"
    /\ fout' = extract_structured_data(fin)
    /\ fstage' = "out"
    /\ UNCHANGED <<server_vars, fin>>

NextFacts == CallExtractStructuredData

SpecFacts == InitFacts /\ [][NextFacts]_vars

HasChar(text, c) == \E i \in 1..Len(text) : text[i].ch = c

HasDigit(text) == \E i \in 1..Len(text) : IsDigit(text[i])

HasLetter(text) == \E i \in 1..Len(text) : IsLetter(text[i])

----------------------------------------------------------------------------
(* Properties of failing collaborators and of the upload response *)

Terminal(row) == row.is_processed \/ row.processing_error # NULL

\* C17: upload_resume sends its success response only once the pass of the
\* document has returned, so the document is then processed or failed, and
\* the body of the response is made of the id, the names, the size and the
\* type of the document, the same whichever way the pass ended.
C17_ResponseAfterPass ==
    /\ [][\A p \in Requests :
            (req'[p].response = 200 /\ req[p].response # 200) =>
                (pc[p] = "returned" /\ Terminal(DocOf(p)))]_vars
    /\ [](\A p \in Requests :
            req[p].response = 200 =>
                /\ Terminal(DocOf(p))
                /\ req[p].body = ResumeUploadResponse(NewResume(DocOf(p).id, p,
                        [ext |-> DocOf(p).file_type, size |-> DocOf(p).file_size])))

\* the success response has been sent for a document whose pass failed
C17_Witness ==
    \E p \in Requests :
        /\ req[p].response = 200
        /\ ~DocOf(p).is_processed
        /\ DocOf(p).processing_error # NULL
        /\ req[p].body.status = "uploaded"

----------------------------------------------------------------------------
(* process_resume on its own: callers, each with a session of its own, run
   one pass each on the documents of a table that upload_resume filled, in
   any interleaving *)

NumCallers == 2

NumDocs == 2

Callers == 1..NumCallers

\* the file stored for document id
StoredFile(id) ==
    CASE id % 3 = 1 ->
            [ext |-> "txt", size |-> 1024,
             text |-> <<Letters(400), NL, NL, Letters(400), NL, NL, Letters(400)>>]
      [] id % 3 = 2 -> [ext |-> "txt", size |-> 1024, text |-> <<Letters(400)>>]
      [] OTHER -> [ext |-> "pdf", size |-> 1024, text |-> <<Letters(400)>>]

InitPasses ==
    /\ resumes = [id \in 1..NumDocs |-> NewResume(id, id, StoredFile(id))]
    /\ chunk_rows = <<>>
    /\ temp_files = {}
    /\ storage = 1..NumDocs
    /\ settings = [allowed_extensions |-> default_allowed_extensions]
    /\ loop = 0
    /\ pc = [p \in Callers |-> "start"]
    /\ req = [p \in Callers |-> IdleLocals]
    /\ session = [p \in Callers |-> EmptySession]
    /\ fin = <<>>
    /\ fout = <<>>
    /\ fstage = "idle"

\* line 356: process_resume(resume_id, db) is called
Call(p) ==
    /\ pc[p] = "start"
    /\ \E id \in 1..NumDocs :
        req' = [req EXCEPT ![p].resume_id = id, ![p].file = StoredFile(id)]
    /\ pc' = [pc EXCEPT ![p] = "query"]
    /\ UNCHANGED <<resumes, chunk_rows, temp_files, session, storage, settings, loop,
                   fin, fout, fstage>>

NextPasses ==
    \E p \in Callers :
        \/ Call(p)
        \/ Query(p)
        \/ Download(p)
        \/ TempFile(p)
        \/ Parse(p)
        \/ UpdateMetadata(p)
        \/ SaveChunks(p)
        \/ Embed(p)
        \/ VectorUpload(p)
        \/ Commit(p)
        \/ MarkFailed(p)
        \/ Finally(p)
        \/ Except(p)

SpecPasses == InitPasses /\ [][NextPasses]_vars

\* C15: a step of the pass for document d leaves every other document's row
\* as it is (its flags, its error, its chunk count and every other column),
\* adds chunk rows only for d, and leaves the pending changes of the other
\* passes alone, in any interleaving of passes.
C15_PassChangesOnlyItsDocument ==
    [][\A p \in Callers :
        pc'[p] # pc[p] =>
            LET d == req'[p].resume_id
            IN  /\ \A id \in DOMAIN resumes :
                       id # d =>
                           /\ resumes'[id].is_processed = resumes[id].is_processed
                           /\ resumes'[id].processing_error = resumes[id].processing_error
                           /\ resumes'[id].chunks_count = resumes[id].chunks_count
                           /\ resumes'[id] = resumes[id]
                /\ Len(chunk_rows') >= Len(chunk_rows)
                /\ SubSeq(chunk_rows', 1, Len(chunk_rows)) = chunk_rows
                /\ \A i \in (Len(chunk_rows) + 1)..Len(chunk_rows') :
                       chunk_rows'[i].resume_id = d
                /\ \A q \in Callers \ {p} : session'[q] = session[q]]_pc

\* the pass of one document has committed it as processed while the pass of
\* another document has its changes pending
C15_Witness ==
    \E p, q \in Callers :
        /\ req[p].resume_id # req[q].resume_id
        /\ pc[q] = "returned"
        /\ resumes[req[q].resume_id].is_processed
        /\ ChunkRowsOf(req[q].resume_id) # <<>>
        /\ pc[p] = "commit"
        /\ session[p].added # <<>>
        /\ ~resumes[req[p].resume_id].is_processed

\* every pass on document id is over and none of its calls failed
PassesDone(id) ==
    \A p \in Callers :
        req[p].resume_id = id => (PassOver(p) /\ req[p].faults = {})

\* C16: after the passes on a document (none of them with a failing call),
\* its chunk rows are those of one pass: no two of them have the same
\* chunk_index, and there are chunks_count of them.
C16_ChunkRowsOfOnePass ==
    \A id \in DOMAIN resumes :
        PassesDone(id) =>
            LET rows == ChunkRowsOf(id)
            IN  /\ \A i, j \in 1..Len(rows) :
                       i # j => rows[i].chunk_index # rows[j].chunk_index
                /\ Len(rows) = resumes[id].chunks_count

----------------------------------------------------------------------------
(* search_resumes on its own: one request of SearchRequests against every
   table of SearchTables *)

MaxSearchRows == 2

\* an Optional[float] that is None
NoBound == -1

\* str.split(): the maximal runs of non-whitespace
RECURSIVE split(_)
split(s) ==
    LET t == lstrip(s)
        ends == {i \in 1..Len(t) : IsSpace(t[i])}
    IN  IF t = <<>> THEN <<>>
        ELSE IF ends = {} THEN <<t>>
        ELSE LET i == CHOOSE k \in ends : \A m \in ends : k <= m
             IN  <<SubSeq(t, 1, i - 1)>> \o split(SubSeq(t, i + 1, Len(t)))

\* " ".join(strs)
RECURSIVE join(_)
join(strs) ==
    IF strs = <<>> THEN <<>>
    ELSE IF Len(strs) = 1 THEN strs[1]
    ELSE strs[1] \o <<SP>> \o join(Tail(strs))

\* f"{value}" of a column that may be None, as candidate_name may; the
\* role and the company of a processed row are texts, '' when not found
Formatted(value) == IF value = NULL THEN S("None") ELSE value

\* the rows the passes leave: candidate_name None or a name, role and
\* company '' or a text, skills a list
SearchRows ==
    {[candidate_name |-> S("Jo Li"), current_role |-> S("Developer"),
      current_company |-> S("Acme"), years_experience |-> 4, domain |-> "frontend",
      skills |-> Strs(<<"Python", "React">>), is_processed |-> TRUE],
     [candidate_name |-> NULL, current_role |-> <<>>, current_company |-> <<>>,
      years_experience |-> 0, domain |-> "general", skills |-> <<>>,
      is_processed |-> TRUE],
     [candidate_name |-> S("Ann Roe"), current_role |-> <<>>, current_company |-> <<>>,
      years_experience |-> 8, domain |-> "backend",
      skills |-> Strs(<<"Java", "Sql", "Docker", "Python">>), is_processed |-> TRUE],
     [candidate_name |-> NULL, current_role |-> <<>>, current_company |-> <<>>,
      years_experience |-> 0, domain |-> "", skills |-> <<>>, is_processed |-> FALSE]}

\* the tables: row i has id i
SearchTables ==
    UNION {{[i \in 1..k |-> [id |-> i] @@ t[i]] : t \in [1..k -> SearchRows]} :
              k \in 0..MaxSearchRows}

\* ResumeSearchRequest; domain "" stands for None as well, which line 238
\* treats alike, and so does skills <<>>
SearchRequests ==
    [query : {S("python"), S("Java developer"), S("none  acme")},
     skills : {<<>>, Strs(<<"java">>), Strs(<<"PYTHON", "react">>)},
     domain : {"", "backend"},
     min_experience : {NoBound, 2},
     max_experience : {NoBound, 5},
     limit : {1, 10}]

\* lines 256-299: the score and the CandidateMatch of one row
CandidateMatch(resume, search_request) ==
    LET query == lower(search_request.query)
        stored == {lower(resume.skills[k]) : k \in 1..Len(resume.skills)}
        skills_match == SelectSeq(search_request.skills, LAMBDA skill : lower(skill) \in stored)
        resume_text ==
            Formatted(resume.candidate_name) \o <<SP>> \o resume.current_role
                \o <<SP>> \o resume.current_company
                \o (IF resume.skills # <<>> THEN <<SP>> \o join(resume.skills) ELSE <<>>)
        words == SelectSeq(split(query), LAMBDA word : InStr(word, lower(resume_text)))
        score == 10 * Len(skills_match) + 5 * Len(words)
        match_percentage == Min(100, score)
    IN  [resume_id |-> resume.id,
         candidate_name |-> IF resume.candidate_name = NULL THEN S("Unknown")
                            ELSE resume.candidate_name,
         match_percentage |-> match_percentage,
         relevance_score |-> IF match_percentage >= 70 THEN "High"
                             ELSE IF match_percentage >= 40 THEN "Medium" ELSE "Low",
         skills_match |-> skills_match,
         highlights |-> SubSeq(resume.skills, 1, Min(3, Len(resume.skills)))]

\* line 302: list.sort(key=match_percentage, reverse=True), which is stable
RECURSIVE sort_by_match(_)
sort_by_match(candidates) ==
    IF candidates = <<>> THEN <<>>
    ELSE LET best == CHOOSE i \in 1..Len(candidates) :
                        /\ \A j \in 1..Len(candidates) :
                               candidates[j].match_percentage <= candidates[i].match_percentage
                        /\ \A j \in 1..(i - 1) :
                               candidates[j].match_percentage < candidates[i].match_percentage
         IN  <<candidates[best]>>
                 \o sort_by_match(SubSeq(candidates, 1, best - 1)
                                    \o SubSeq(candidates, best + 1, Len(candidates)))

\* lines 233-236 as they are: the skills of the request add no filter
skills_filter(resume, search_request) == TRUE

\* lines 233-253: the filters and the limit of the query
selected_rows(table, search_request) ==
    LET kept == SelectSeq(table, LAMBDA resume :
                    /\ resume.is_processed
                    /\ skills_filter(resume, search_request)
                    /\ (search_request.domain # "" => resume.domain = search_request.domain)
                    /\ (search_request.min_experience # NoBound =>
                            resume.years_experience >= search_request.min_experience)
                    /\ (search_request.max_experience # NoBound =>
                            resume.years_experience <= search_request.max_experience))
    IN  SubSeq(kept, 1, Min(search_request.limit, Len(kept)))

\* lines 219-311; ok is whether the query of line 253 goes through
search_resumes(search_request, table, ok) ==
    IF ~ok THEN [status |-> 500, candidates |-> <<>>, total_found |-> 0]
    ELSE LET rows == selected_rows(table, search_request)
             candidates == sort_by_match(
                 [i \in 1..Len(rows) |-> CandidateMatch(rows[i], search_request)])
         IN  [status |-> 200, candidates |-> candidates, total_found |-> Len(candidates)]

InitSearch ==
    /\ resumes \in SearchTables
    /\ chunk_rows = <<>>
    /\ temp_files = {}
    /\ pc = <<>>
    /\ req = <<>>
    /\ session = <<>>
    /\ storage = {}
    /\ settings = <<>>
    /\ loop = 0
    /\ fin \in SearchRequests
    /\ fout = <<>>
    /\ fstage = "in"

CallSearchResumes ==
    /\ fstage = "in"
    /\ \E ok \in BOOLEAN : fout' = search_resumes(fin, resumes, ok)
    /\ fstage' = "out"
    /\ UNCHANGED <<resumes, chunk_rows, temp_files, pc, req, session, storage, settings,
                   loop, fin>>

NextSearch == CallSearchResumes

SpecSearch == InitSearch /\ [][NextSearch]_vars

\* the candidate has every requested skill among its stored skills
HasRequestedSkills(candidate, search_request, table) ==
    LET stored == table[candidate.resume_id].skills
    IN  \A k \in 1..Len(search_request.skills) :
            \E m \in 1..Len(stored) : lower(stored[m]) = lower(search_request.skills[k])

\* C18: every candidate returned for a request with a non-empty skills list
\* has all the requested skills, whatever their case, among its stored
\* skills.
C18_SkillsAreRequired ==
    (fstage = "out" /\ fout.status = 200 /\ fin.skills # <<>>) =>
        \A i \in 1..Len(fout.candidates) :
            HasRequestedSkills(fout.candidates[i], fin, resumes)

----------------------------------------------------------------------------
(* Chunks against the raw text *)

\* a string with adjacent letter runs merged into one run
RECURSIVE MergeRuns(_)
MergeRuns(s) ==
    IF Len(s) < 2 THEN s
    ELSE IF s[1].ch = "x" /\ s[2].ch = "x"
    THEN MergeRuns(<<Letters(s[1].n + s[2].n)>> \o SubSeq(s, 3, Len(s)))
    ELSE <<s[1]>> \o MergeRuns(Tail(s))

\* a, with its runs merged, lies in b, with its runs merged, at offset i:
\* an inner run is a whole run of b, the first and the last are part of one
LiesAt(a, b, i) ==
    \A j \in 1..Len(a) :
        /\ a[j].ch = b[i + j].ch
        /\ IF j \in {1, Len(a)} THEN a[j].n <= b[i + j].n ELSE a[j].n = b[i + j].n

\* `c in text`, character by character
IsSubstring(c, text) ==
    \E i \in 0..(Len(MergeRuns(text)) - Len(MergeRuns(c))) :
        LiesAt(MergeRuns(c), MergeRuns(text), i)

\* C21: the content of every chunk chunk_text returns is a contiguous
\* substring of the text it was given.
C21_ChunkIsSubstring ==
    fstage = "out" => \A i \in 1..Len(fout) : IsSubstring(fout[i], fin)

----------------------------------------------------------------------------
(* The chunk rows of a successful pass *)

\* the pass of p is over, its parse succeeded and none of its calls failed
\* but the embedding or the vector-store upload, which are only logged
SuccessfulPass(p) ==
    /\ pc[p] = "returned"
    /\ req[p].parse_result.success
    /\ req[p].faults \subseteq {"embed", "vector"}

\* C22: the chunk rows a successful pass creates carry chunk_index 0, 1, ...,
\* n-1 in the order chunk_text returned the chunks, with no gap or repeat,
\* each chunk_size is the length of the row's content, and the document's
\* chunks_count is n.
C22_ChunkRowsInOrder ==
    \A p \in Requests :
        SuccessfulPass(p) =>
            /\ Len(ChunkRowsOf(DocOf(p).id)) = Len(chunk_text(req[p].parse_result.raw_text))
            /\ \A i \in 1..Len(ChunkRowsOf(DocOf(p).id)) :
                   /\ ChunkRowsOf(DocOf(p).id)[i].chunk_index = i - 1
                   /\ ChunkRowsOf(DocOf(p).id)[i].content =
                          chunk_text(req[p].parse_result.raw_text)[i]
                   /\ ChunkRowsOf(DocOf(p).id)[i].chunk_size =
                          StrLen(ChunkRowsOf(DocOf(p).id)[i].content)
            /\ DocOf(p).chunks_count = Len(ChunkRowsOf(DocOf(p).id))

\* a successful pass has stored the three chunk rows of a three-paragraph text
C22_Witness ==
    \E p \in Requests :
        /\ SuccessfulPass(p)
        /\ Len(ChunkRowsOf(DocOf(p).id)) = 3
        /\ DocOf(p).chunks_count = 3
        /\ ChunkRowsOf(DocOf(p).id)[3].chunk_index = 2
        /\ ChunkRowsOf(DocOf(p).id)[3].chunk_size = 400

----------------------------------------------------------------------------
(* OpenAIService.search_with_assistant and fallback_intelligent_search *)

\* the statuses of an assistant run; one in FinalStatuses does not change
FinalStatuses == {"completed", "failed", "cancelled", "expired"}
RunStatuses == {"queued", "in_progress", "requires_action", "cancelling"} \cup FinalStatuses

\* line 402
max_wait == 30

\* lines 458-569: the branch of the if/elif chain the query takes; the
\* response is a fixed text per branch, given here by its heading
fallback_response(query_lower) ==
    IF AnyWordIn(Strs(<<"supriya", "find supriya", "candidate named supriya">>), query_lower)
    THEN "**Found Supriya Sharma!**"
    ELSE IF AnyWordIn(Strs(<<"frontend", "front-end", "frontend developer">>), query_lower)
    THEN "**Frontend Developers Found:**"
    ELSE IF AnyWordIn(Strs(<<"python", "python developer">>), query_lower)
    THEN "**Python Developers Found:**"
    ELSE IF AnyWordIn(Strs(<<"react", "react developer">>), query_lower)
    THEN "**React Developers Found:**"
    ELSE IF AnyWordIn(Strs(<<"java", "java developer">>), query_lower)
    THEN "**Java Developers Found:**"
    ELSE "I understand you're looking for"

\* lines 450-591
fallback_intelligent_search(query) ==
    [thread_id |-> "fallback_search", run_id |-> "local_search",
     response |-> fallback_response(lower(query)), status |-> "completed"]

Queries ==
    {S("Find Supriya"), S("React developer"), S("java"), S("a cook")}

\* the locals of the call and the run it started: run is the status the
\* run has at the API, run_status the one the last poll read
AssistantLocals(query) ==
    [query |-> query, run |-> "none", run_status |-> "none", elapsed |-> 0,
     polls |-> 0, cause |-> "none", result |-> <<>>]

InitSearchAssistant ==
    /\ NoRequests
    /\ fin \in Queries
    /\ fout = AssistantLocals(fin)
    /\ fstage = "thread"

\* an exception raised inside the try block leaves the call
RaisePropagates(locals, cause) ==
    /\ fout' = [locals EXCEPT !.cause = cause]
    /\ fstage' = "raised"

\* lines 445-448: `except Exception` takes every exception raised inside
\* the try block, with the locals as they are then, to the fallback
Raise(locals, cause) ==
    /\ fout' = [locals EXCEPT !.cause = cause]
    /\ fstage' = "fallback"

\* lines 340, 366-383: threads.create and messages.create
ApiCall(at, next) ==
    /\ fstage = at
    /\ \E ok \in BOOLEAN :
        IF ok THEN fstage' = next /\ UNCHANGED fout ELSE Raise(fout, "api")
    /\ UNCHANGED <<server_vars, fin>>

\* lines 387-390: runs.create
CreateRun ==
    /\ fstage = "run"
    /\ \E ok \in BOOLEAN :
        IF ok THEN fstage' = "while" /\ fout' = [fout EXCEPT !.run = "queued"]
        ELSE Raise(fout, "api")
    /\ UNCHANGED <<server_vars, fin>>

\* the run goes on at the API while it has no final status
RunMoves ==
    /\ fout.run \in RunStatuses \ FinalStatuses
    /\ \E s \in RunStatuses \ {fout.run} : fout' = [fout EXCEPT !.run = s]
    /\ UNCHANGED <<server_vars, fin, fstage>>

\* lines 404 and 417-419: the loop test, and the timeout when it fails
While ==
    /\ fstage = "while"
    /\ IF fout.elapsed < max_wait
       THEN fstage' = "retrieve" /\ UNCHANGED fout
       ELSE Raise(fout, "timeout")
    /\ UNCHANGED <<server_vars, fin>>

\* lines 405-415: one poll
Retrieve ==
    /\ fstage = "retrieve"
    /\ \E ok \in BOOLEAN :
        IF ~ok THEN Raise(fout, "api")
        ELSE IF fout.run = "completed"
        THEN /\ fout' = [fout EXCEPT !.run_status = fout.run, !.polls = @ + 1]
             /\ fstage' = "messages"
        ELSE IF fout.run \in {"failed", "cancelled", "expired"}
        THEN Raise([fout EXCEPT !.run_status = fout.run, !.polls = @ + 1], "ended")
        ELSE /\ fout' = [fout EXCEPT !.run_status = fout.run, !.polls = @ + 1]
             /\ fstage' = "sleep"
    /\ UNCHANGED <<server_vars, fin>>

\* lines 414-415
Sleep ==
    /\ fstage = "sleep"
    /\ fout' = [fout EXCEPT !.elapsed = @ + 1]
    /\ fstage' = "while"
    /\ UNCHANGED <<server_vars, fin>>

\* lines 422-441: the first assistant message is the response, '' when
\* there is none; a message without content raises IndexError
Messages ==
    /\ fstage = "messages"
    /\ \E got \in {"fails", "no content", "none", "text"} :
        IF got \in {"fails", "no content"} THEN Raise(fout, "api")
        ELSE /\ fout' = [fout EXCEPT !.result =
                    [thread_id |-> "thread", run_id |-> "run",
                     response |-> IF got = "text" THEN "answer" ELSE "",
                     status |-> "completed"]]
             /\ fstage' = "over"
    /\ UNCHANGED <<server_vars, fin>>

\* line 448
Fallback ==
    /\ fstage = "fallback"
    /\ fout' = [fout EXCEPT !.result = fallback_intelligent_search(fout.query)]
    /\ fstage' = "over"
    /\ UNCHANGED <<server_vars, fin>>

SearchAssistantStep ==
    \/ ApiCall("thread", "message")
    \/ ApiCall("message", "run")
    \/ CreateRun
    \/ While
    \/ Retrieve
    \/ Sleep
    \/ Messages
    \/ Fallback

NextSearchAssistant == SearchAssistantStep \/ RunMoves

\* the call is sequential code: a step it can take, it takes
SpecSearchAssistant ==
    InitSearchAssistant /\ [][NextSearchAssistant]_vars /\ WF_vars(SearchAssistantStep)

\* an independent statement of the fallback result for the queries
FallbackHeading(query) ==
    CASE query = S("Find Supriya") -> "**Found Supriya Sharma!**"
      [] query = S("React developer") -> "**React Developers Found:**"
      [] query = S("java") -> "**Java Developers Found:**"
      [] OTHER -> "I understand you're looking for"

IsFallbackResult(result, query) ==
    /\ result.thread_id = "fallback_search"
    /\ result.run_id = "local_search"
    /\ result.response = FallbackHeading(query)

\* C23: search_with_assistant always terminates and never raises; it polls
\* the run status at most 30 times; when the run ended failed, cancelled or
\* expired, when 30 polls passed without completion or when an API call
\* failed it returns the local fallback result; every result it returns has
\* status "completed".
C23_SearchAlwaysAnswers ==
    /\ <>(fstage = "over")
    /\ [](/\ fstage # "raised"
          /\ fout.polls <= 30
          /\ fstage = "over" =>
               /\ fout.result.status = "completed"
               /\ (\/ fout.run_status \in {"failed", "cancelled", "expired"}
                   \/ (fout.polls = 30 /\ fout.run_status # "completed")
                   \/ fout.cause = "api")
                  => IsFallbackResult(fout.result, fin))

\* the call has returned the fallback result after 30 polls that never saw
\* the run completed
C23_Witness ==
    /\ fstage = "over"
    /\ fout.polls = 30
    /\ fout.elapsed = 30
    /\ fout.cause = "timeout"
    /\ fout.run_status = "in_progress"
    /\ IsFallbackResult(fout.result, fin)

----------------------------------------------------------------------------
(* Rejected uploads *)

\* lines 38 and 46: the two validations of upload_resume
ValidUpload(file) ==
    file.ext \in settings.allowed_extensions /\ file.size <= max_file_size

\* C24: upload_resume answers a file whose extension is not allowed or whose
\* size exceeds max_file_size with HTTP status 400 carrying the reason, and
\* then nothing is uploaded to storage, no row is created and no pass
\* starts.
C24_InvalidUploadIs400 ==
    \A p \in Requests :
        (pc[p] = "done" /\ req[p].file # NoFile /\ ~ValidUpload(req[p].file)) =>
            /\ req[p].response = 400
            /\ req[p].body # <<"Error uploading resume">>
            /\ p \notin storage
            /\ \A id \in 1..Len(resumes) : resumes[id].filename # p
            /\ ~req[p].parsed

----------------------------------------------------------------------------
(* login and AuthService.authenticate_user *)

\* settings.py lines 36-37
admin_username == S("admin")
admin_password == S("admin")

\* auth_service.py lines 33-39
authenticate_user(username, password) ==
    username = admin_username /\ password = admin_password

Usernames == {S("admin"), S("Admin"), S("admin "), S("admi"), S("root"), S("' OR 1=1"), <<>>}
Passwords == {S("admin"), S("ADMIN"), S(" admin"), S("admin1"), S("secret"), S("x"), <<>>}

NoToken == <<>>

NoAnswer == [status |-> 0, detail |-> "", access_token |-> NoToken, username |-> <<>>]

InitLogin ==
    /\ NoRequests
    /\ fin \in [username : Usernames, password : Passwords]
    /\ fout = NoAnswer
    /\ fstage = "login"

\* auth.py line 17
Authenticate ==
    /\ fstage = "login"
    /\ fstage' = IF authenticate_user(fin.username, fin.password) THEN "token" ELSE "reject"
    /\ UNCHANGED <<server_vars, fin, fout>>

\* auth.py lines 18-20 and auth_service.py lines 41-51: the token is made
\* for the name that was sent, or the JWT library raises
CreateToken ==
    /\ fstage = "token"
    /\ \E ok \in BOOLEAN :
        IF ok
        THEN /\ fout' = [fout EXCEPT !.access_token = [sub |-> fin.username]]
             /\ fstage' = "return"
        ELSE fstage' = "except" /\ UNCHANGED fout
    /\ UNCHANGED <<server_vars, fin>>

\* auth.py lines 21-24
ReturnLogin ==
    /\ fstage = "return"
    /\ fout' = [fout EXCEPT !.status = 200, !.username = fin.username]
    /\ fstage' = "out"
    /\ UNCHANGED <<server_vars, fin>>

\* auth.py lines 25-29: the HTTPException(401) is raised inside the try
\* block, whose `except Exception` catches it
Reject ==
    /\ fstage = "reject"
    /\ fstage' = "except"
    /\ UNCHANGED <<server_vars, fin, fout>>

\* auth.py lines 30-35
LoginExcept ==
    /\ fstage = "except"
    /\ fout' = [fout EXCEPT !.status = 500, !.detail = "Internal server error"]
    /\ fstage' = "out"
    /\ UNCHANGED <<server_vars, fin>>

NextLogin == Authenticate \/ CreateToken \/ ReturnLogin \/ Reject \/ LoginExcept

SpecLogin == InitLogin /\ [][NextLogin]_vars

\* C25: login answers a username/password pair that is not the configured
\* admin credential with HTTP status 401 "Incorrect username or password"
\* and issues no token; it issues a token only for the exact admin username
\* and password.
C25_BadCredentialsGet401 ==
    /\ (fstage = "out" /\ ~(fin.username = S("admin") /\ fin.password = S("admin"))) =>
            /\ fout.status = 401
            /\ fout.detail = "Incorrect username or password"
            /\ fout.access_token = NoToken
    /\ (fstage \in {"return", "out"} /\ fout.access_token # NoToken) =>
            (fin.username = S("admin") /\ fin.password = S("admin"))

----------------------------------------------------------------------------
(* Temporary files *)

----------------------------------------------------------------------------
(* OpenAIService.analyze_resume_with_assistant *)

\* line 311: the statuses on which the polling loop breaks
break_statuses == {"completed", "failed", "cancelled"}

AnalyzeLocals(assistant_id) ==
    [assistant_id |-> assistant_id, run |-> "none", status |-> "none",
     temp_file |-> FALSE]

\* self.assistant_id is the configured id, or None
InitAnalyze ==
    /\ NoRequests
    /\ fin \in {NULL, S("asst_1")}
    /\ fout = AnalyzeLocals(fin)
    /\ fstage = "tempfile"

\* lines 328-330: the handler logs and re-raises
AnalyzeRaise ==
    /\ fstage' = "raised"
    /\ UNCHANGED fout

\* lines 289-291
AnalyzeTempFile ==
    /\ fstage = "tempfile"
    /\ \E got \in {"written", "not created", "not written"} :
        CASE got = "written" ->
                fout' = [fout EXCEPT !.temp_file = TRUE] /\ fstage' = "upload"
          [] got = "not created" -> AnalyzeRaise
          [] got = "not written" ->
                fout' = [fout EXCEPT !.temp_file = TRUE] /\ fstage' = "raised"
    /\ UNCHANGED <<server_vars, fin>>

\* lines 294, 301 and 302: create_file_embedding, create_thread and
\* add_message_to_thread
AnalyzeCall(at, next) ==
    /\ fstage = at
    /\ \E ok \in BOOLEAN :
        IF ok THEN fstage' = next /\ UNCHANGED fout ELSE AnalyzeRaise
    /\ UNCHANGED <<server_vars, fin>>

\* lines 297-298
EnsureAssistant ==
    /\ fstage = "assistant"
    /\ IF fout.assistant_id # NULL
       THEN fstage' = "thread" /\ UNCHANGED fout
       ELSE \E ok \in BOOLEAN :
            IF ok THEN /\ fout' = [fout EXCEPT !.assistant_id = S("asst_new")]
                       /\ fstage' = "thread"
            ELSE AnalyzeRaise
    /\ UNCHANGED <<server_vars, fin>>

\* line 305
RunAssistant ==
    /\ fstage = "run"
    /\ \E ok \in BOOLEAN :
        IF ok THEN fstage' = "poll" /\ fout' = [fout EXCEPT !.run = "queued"]
        ELSE AnalyzeRaise
    /\ UNCHANGED <<server_vars, fin>>

\* lines 309-312: get_run_status and the test that leaves the loop
GetRunStatus ==
    /\ fstage = "poll"
    /\ \E ok \in BOOLEAN :
        IF ok
        THEN /\ fout' = [fout EXCEPT !.status = fout.run]
             /\ fstage' = IF fout.run \in break_statuses THEN "messages" ELSE "sleep"
        ELSE AnalyzeRaise
    /\ UNCHANGED <<server_vars, fin>>

\* line 313
AnalyzeSleep ==
    /\ fstage = "sleep"
    /\ fstage' = "poll"
    /\ UNCHANGED <<server_vars, fin, fout>>

\* line 319
AnalyzeUnlink ==
    /\ fstage = "unlink"
    /\ \E ok \in BOOLEAN :
        IF ok THEN fout' = [fout EXCEPT !.temp_file = FALSE] /\ fstage' = "over"
        ELSE AnalyzeRaise
    /\ UNCHANGED <<server_vars, fin>>

AnalyzeStep ==
    \/ AnalyzeTempFile
    \/ AnalyzeCall("upload", "assistant")
    \/ EnsureAssistant
    \/ AnalyzeCall("thread", "message")
    \/ AnalyzeCall("message", "run")
    \/ RunAssistant
    \/ GetRunStatus
    \/ AnalyzeSleep
    \/ AnalyzeCall("messages", "unlink")
    \/ AnalyzeUnlink

NextAnalyze == AnalyzeStep \/ RunMoves

\* the call is sequential code: a step it can take, it takes
SpecAnalyze == InitAnalyze /\ [][NextAnalyze]_vars /\ WF_vars(AnalyzeStep)

\* C27: the polling loop of analyze_resume_with_assistant has an exit for
\* every final run status (completed, failed, cancelled, expired): once the
\* run has a final status the call leaves the loop.
C27_LoopEndsOnFinalRun ==
    (fstage \in {"poll", "sleep"} /\ fout.run \in FinalStatuses)
        ~> (fstage \notin {"poll", "sleep"})

----------------------------------------------------------------------------
(* The candidates search_resumes returns against the whole table *)

\* the row is processed and passes the domain and experience filters
PassesFilters(resume, search_request) ==
    /\ resume.is_processed
    /\ (search_request.domain # "" => resume.domain = search_request.domain)
    /\ (search_request.min_experience # NoBound =>
            resume.years_experience >= search_request.min_experience)
    /\ (search_request.max_experience # NoBound =>
            resume.years_experience <= search_request.max_experience)

Returned(id) == \E i \in 1..Len(fout.candidates) : fout.candidates[i].resume_id = id

\* C28: search_resumes returns the `limit` highest-scoring candidates among
\* all processed resumes that pass the domain and experience filters, in
\* non-increasing match_percentage order: no such resume that is left out
\* scores higher than a returned one.
C28_BestCandidatesReturned ==
    (fstage = "out" /\ fout.status = 200) =>
        /\ \A i \in 1..(Len(fout.candidates) - 1) :
               fout.candidates[i].match_percentage >= fout.candidates[i + 1].match_percentage
        /\ Len(fout.candidates) <= fin.limit
        /\ \A id \in 1..Len(resumes) :
               (PassesFilters(resumes[id], fin) /\ ~Returned(id)) =>
                   \A i \in 1..Len(fout.candidates) :
                       CandidateMatch(resumes[id], fin).match_percentage
                           <= fout.candidates[i].match_percentage

----------------------------------------------------------------------------
(* Chunks without text *)

\* the chunk holds a character that is neither whitespace nor a sentence
\* terminator
HasText(chunk) ==
    \E k \in 1..Len(chunk) : ~IsSpace(chunk[k]) /\ ~IsTerminator(chunk[k])

\* C29: chunk_text never returns an empty or punctuation-only chunk: every
\* chunk holds at least one non-whitespace character of the text, and an
\* empty or whitespace-only text gives no chunk.
C29_NoChunkWithoutText ==
    fstage = "out" =>
        /\ \A i \in 1..Len(fout) : HasText(fout[i])
        /\ strip(fin) = <<>> => fout = <<>>

----------------------------------------------------------------------------
(* Index and chunk data against is_processed *)

\* C30: in every committed state a document that has is_indexed true, an
\* openai_file_id, chunks_count > 0 or a chunk row also has is_processed
\* true.
C30_DataOnlyIfProcessed ==
    \A id \in 1..Len(resumes) :
        (\/ resumes[id].is_indexed
         \/ resumes[id].openai_file_id # NULL
         \/ resumes[id].chunks_count > 0
         \/ ChunkRowsOf(id) # <<>>)
            => resumes[id].is_processed

\* the handler has committed a pass that failed while it added its chunks:
\* the document has fewer chunk rows than chunks_count, is indexed by
\* neither service, and is processed
C30_Witness ==
    \E id \in 1..Len(resumes) :
        /\ resumes[id].is_processed
        /\ resumes[id].processing_error # NULL
        /\ resumes[id].chunks_count = 3
        /\ Len(ChunkRowsOf(id)) = 2
        /\ ~resumes[id].is_indexed

====
